---- MODULE Spec2Model ----
(***************************************************************************)
(* Geometric clipmap terrain of wgpu-renderer.                             *)
(*                                                                         *)
(* Positions are fixed-point numbers: one world unit is SubUnits position  *)
(* units, so a camera coordinate n stands for the real n / SubUnits and    *)
(* floor(camera / scale) is n \div (scale * SubUnits).  Scales are plain   *)
(* factors (world units per mesh unit).                                    *)
(*                                                                         *)
(* Two variants of the planner live in the repository:                     *)
(*   Terrain        (crates/wre_terrain)  keeps the five instance lists    *)
(*   TerrainSystem  (crates/wre-terrain)  uploads them and draws them      *)
(***************************************************************************)
EXTENDS Integers, Sequences, FiniteSets, TLC

\* ------------------------------------------------------------------------
\* Program constants (crates/wre-terrain/src/consts.rs)
\* ------------------------------------------------------------------------
SCALE_OFFSET == 5
N_LEVELS == 10
N_TILES == N_LEVELS * 16
N_FILLERS == N_LEVELS
N_TRIMS == N_LEVELS - 1
N_SEAMS == N_LEVELS - 1
N_CROSS == 1

TILE_RES == 64
PATCH_RES == TILE_RES + 1
CLIP_RES == TILE_RES * 4 + 1
CLIP_VERT_RES == CLIP_RES + 1

I_TILE == 6 * (TILE_RES * TILE_RES)
I_FILL == 24 * TILE_RES
I_TRIM == (CLIP_VERT_RES * 2 - 1) * 6
I_CROSS == 24 * TILE_RES + 6
I_SEAM == 6 * CLIP_VERT_RES

\* The four fixed trim rotations, in degrees, indexed by r = 0..3.
ROTATIONS == [r \in 0..3 |-> CASE r = 0 -> 0 [] r = 1 -> 270 [] r = 2 -> 90 [] r = 3 -> 180]

\* Quat::IDENTITY
IDENTITY == 0

\* ------------------------------------------------------------------------
\* Bounds of the model
\* ------------------------------------------------------------------------
\* position units per world unit (camera coordinates are multiples of 1/SubUnits)
SubUnits == 2
\* camera coordinates lie at and just below the level-0 cell boundaries 0..CamCells
CamCells == 1

TerrainIds == {"a", "b"}
StampTypes == {"tile", "cross", "fill", "trim", "seam"}

\* 1u32 << level + SCALE_OFFSET
Scale(level) == 2 ^ (level + SCALE_OFFSET)
\* TILE_RES << level + SCALE_OFFSET
TileSize(level) == TILE_RES * 2 ^ (level + SCALE_OFFSET)

\* a cell boundary of level 0, and the positions one unit to each side of it
CamCoords == UNION { {b - 1, b} : b \in { k * Scale(0) * SubUnits : k \in 0..CamCells } }
Cameras == CamCoords \X CamCoords

\* bug: the quotient is truncated toward zero instead of floored
FloorSnap_Trunc(v, scale) ==
    (IF v < 0 THEN -((-v) \div (scale * SubUnits)) ELSE v \div (scale * SubUnits)) * (scale * SubUnits)

\* (v / scale).floor() * scale on one component, v in position units
FloorSnap(v, scale) == (v \div (scale * SubUnits)) * (scale * SubUnits)

\* Mat4::from_scale_rotation_translation(v_scale, rotation, translation)
InstanceData(scale, rotation, tx, ty) == [scale |-> scale, rot |-> rotation, x |-> tx, y |-> ty]

\* ------------------------------------------------------------------------
\* ClipmapPlanner: the body of Terrain::update (crates/wre_terrain/src/lib.rs)
\* Vec2 arithmetic is component-wise: the operators below take one component.
\* ------------------------------------------------------------------------
\* bug: the camera position is used without snapping
SnappedPos_Unsnapped(v, level) == v

\* snapped_pos = (camera_position / scale).floor() * scale
SnappedPos(v, level) == FloorSnap(v, Scale(level))

\* base = snapped_pos - tile_size * 2.0
Base(v, level) == SnappedPos(v, level) - 2 * TileSize(level) * SubUnits

\* bug: the middle 2x2 is skipped at the finest level too
SkipTile_EveryLevel(level, x, y) == x \in {1, 2} /\ y \in {1, 2}

\* level != 0 && matches!(x, 1 | 2) && matches!(y, 1 | 2)
SkipTile(level, x, y) == level # 0 /\ x \in {1, 2} /\ y \in {1, 2}

\* bug: the offset starts at x = 1 (x.clamp(0, 1)) instead of x = 2
Fill_Clamp(x, level) == (IF x >= 1 THEN 1 ELSE 0) * Scale(level) * SubUnits

\* fill = (if x >= 2 { 1.0 } else { 0.0 }) * scale
Fill(x, level) == (IF x >= 2 THEN 1 ELSE 0) * Scale(level) * SubUnits

\* bl = base + pos * tile_size + fill
TileCorner(v, level, x) == Base(v, level) + x * TileSize(level) * SubUnits + Fill(x, level)

\* the tile pushed for grid position (x, y)
TileInstance(cam, level, x, y) ==
    InstanceData(Scale(level), IDENTITY, TileCorner(cam[1], level, x), TileCorner(cam[2], level, y))

\* for x in 0..4 { for y in 0..4 { .. } }: the grid positions in iteration order
GridOrder_YOuter == [k \in 1..16 |-> <<(k - 1) % 4, (k - 1) \div 4>>]

GridOrder == [k \in 1..16 |-> <<(k - 1) \div 4, (k - 1) % 4>>]

\* the grid positions of a level that are not skipped by `continue`, in order
KeptGrid(level) == SelectSeq(GridOrder, LAMBDA p : ~SkipTile(level, p[1], p[2]))

\* the 4x4 tile loop: one push per grid position that is not skipped
TileLoop(cam, level) ==
    LET kept == KeptGrid(level)
    IN  [i \in 1..Len(kept) |-> TileInstance(cam, level, kept[i][1], kept[i][2])]

\* the cross is pushed at the finest level only
HasCross(level) == level = 0

\* cross and filler ring sit at snapped_pos
SnappedInstance(cam, level) ==
    InstanceData(Scale(level), IDENTITY, SnappedPos(cam[1], level), SnappedPos(cam[2], level))

\* bug: seam and trim are left out at the finest level instead of the coarsest
HasSeamTrim_NotFinest(level) == level > 0

\* if level < N_LEVELS - 1 { seam and trim }
HasSeamTrim(level) == level < N_LEVELS - 1

\* next_snap = (camera_position / next_scale).floor() * next_scale, next_scale = scale * 2.0
NextSnap(v, level) == FloorSnap(v, Scale(level) * 2)

\* next_base = next_snap - Vec2::splat(TILE_RES << (level + SCALE_OFFSET + 1))
NextBase_OwnTile(v, level) == NextSnap(v, level) - TileSize(level) * SubUnits

NextBase(v, level) == NextSnap(v, level) - TILE_RES * 2 ^ (level + SCALE_OFFSET + 1) * SubUnits

SeamInstance(cam, level) ==
    InstanceData(Scale(level), IDENTITY, NextBase(cam[1], level), NextBase(cam[2], level))

\* d = camera_position - next_snap
TrimD(v, level) == v - NextSnap(v, level)

\* bug: the comparison is not strict
TrimBit_Le(d, level, bit) == IF d <= Scale(level) * SubUnits THEN bit ELSE 0

\* if d < scale { bit } else { 0 }
TrimBit(d, level, bit) == IF d < Scale(level) * SubUnits THEN bit ELSE 0

\* r = (if d.x < scale { 2 } else { 0 }) | (if d.y < scale { 1 } else { 0 })
TrimIndex(cam, level) ==
    TrimBit(TrimD(cam[1], level), level, 2) + TrimBit(TrimD(cam[2], level), level, 1)

\* center = snapped_pos + 0.5 * v_scale.xy()
TrimCenter_NoHalf(v, level) == SnappedPos(v, level)

TrimCenter(v, level) == SnappedPos(v, level) + (Scale(level) * SubUnits) \div 2

TrimInstance(cam, level) ==
    InstanceData(Scale(level), ROTATIONS[TrimIndex(cam, level)],
                 TrimCenter(cam[1], level), TrimCenter(cam[2], level))

\* what one iteration of   for level in 0..N_LEVELS   pushes on list s
LevelBody(cam, level, s) ==
    CASE s = "cross" -> IF HasCross(level) THEN <<SnappedInstance(cam, level)>> ELSE <<>>
      [] s = "tile"  -> TileLoop(cam, level)
      [] s = "fill"  -> <<SnappedInstance(cam, level)>>
      [] s = "seam"  -> IF HasSeamTrim(level) THEN <<SeamInstance(cam, level)>> ELSE <<>>
      [] s = "trim"  -> IF HasSeamTrim(level) THEN <<TrimInstance(cam, level)>> ELSE <<>>

\* for level in 0..N_LEVELS: what the iterations from `level` on push on list s, in order
LevelLoop(cam, level, s) ==
    LET from[n \in 0..N_LEVELS] ==
            IF n >= N_LEVELS THEN <<>> ELSE LevelBody(cam, n, s) \o from[n + 1]
    IN  from[level]

\* bug: the list is not cleared at the start of update
ClearInstances_Keep(list) == list

\* self.<stamp>.instances = Vec::new(): what update keeps of the list it finds
ClearInstances(list) == <<>>

\* the five lists the level loop pushes, tabulated for the camera positions of the
\* model (the comparison makes TLC evaluate the table once instead of per step)
LevelLoopTable == [cam \in Cameras |-> [s \in StampTypes |-> LevelLoop(cam, 0, s)]]
Pushed == IF LevelLoopTable = LevelLoopTable THEN LevelLoopTable ELSE LevelLoopTable

\* the lists Terrain::update leaves, from the lists l it finds
UpdateLists(l, cam) == [s \in StampTypes |-> ClearInstances(l[s]) \o Pushed[cam][s]]

\* ------------------------------------------------------------------------
\* Stamps (crates/wre-terrain/src/consts.rs): declared counts per stamp type
\* ------------------------------------------------------------------------
\* Mesh2d.instance_count of TILE_MESH, CROSS_MESH, FILLER_MESH, TRIM_MESH, SEAM_MESH
MeshInstanceCount ==
    [s \in StampTypes |->
        CASE s = "tile" -> N_TILES [] s = "cross" -> N_CROSS [] s = "fill" -> N_FILLERS
          [] s = "trim" -> N_TRIMS [] s = "seam" -> N_SEAMS]

\* Mesh2d.index_count of the five meshes
MeshIndexCount ==
    [s \in StampTypes |->
        CASE s = "tile" -> I_TILE [] s = "cross" -> I_CROSS [] s = "fill" -> I_FILL
          [] s = "trim" -> I_TRIM [] s = "seam" -> I_SEAM]

\* ------------------------------------------------------------------------
\* Stamp generators (crates/wre-terrain/src/consts.rs), as functions of the
\* tile resolution the crate is built with
\* ------------------------------------------------------------------------
\* TerrainSystem::TILE_RESOLUTION of the older variant (src/terrain.rs)
TILE_RESOLUTION == 48

\* the largest of the small tile resolutions explored besides the two built ones
MaxTileRes == 3

TileResolutions == (1..MaxTileRes) \cup {TILE_RESOLUTION, TILE_RES}

\* mesh coordinates are fixed-point with one fractional bit: the trim is
\* centred by half = 0.5 * extent_f, a half-integer
MeshSubUnits == 2

\* n as f32
F32(n) == n * MeshSubUnits

PatchRes(res) == res + 1
ClipRes(res) == res * 4 + 1
ClipVertRes(res) == ClipRes(res) + 1

\* V_TILE, V_CROSS, V_FILL, V_TRIM, V_SEAM
DeclaredVertexCount(s, res) ==
    CASE s = "tile"  -> PatchRes(res) * PatchRes(res)
      [] s = "cross" -> 8 * PatchRes(res)
      [] s = "fill"  -> 8 * PatchRes(res)
      [] s = "trim"  -> (ClipVertRes(res) * 2 + 1) * 2
      [] s = "seam"  -> 4 * ClipVertRes(res)

\* I_TILE, I_CROSS, I_FILL, I_TRIM, I_SEAM
DeclaredIndexCount(s, res) ==
    CASE s = "tile"  -> 6 * (res * res)
      [] s = "cross" -> 24 * res + 6
      [] s = "fill"  -> 24 * res
      [] s = "trim"  -> (ClipVertRes(res) * 2 - 1) * 6
      [] s = "seam"  -> 6 * ClipVertRes(res)

V_MAX(res) == DeclaredVertexCount("tile", res)
I_MAX(res) == DeclaredIndexCount("tile", res)

\* a loop of n iterations that writes `per` consecutive array entries each:
\* Body(i, k) is entry k (from 0) of iteration i (from 0)
Written(n, per, Body(_, _)) ==
    [e \in 1..(n * per) |-> Body((e - 1) \div per, (e - 1) % per)]

Mesh2d(label, vertices, indices, vertex_count, index_count, instance_count) ==
    [label |-> label, vertices |-> vertices, indices |-> indices,
     vertex_count |-> vertex_count, index_count |-> index_count,
     instance_count |-> instance_count]

\* the vertex loop of generate_tile_mesh: v in 0..V_TILE
TileVertex(res, v) == <<F32(v % PatchRes(res)), F32(v \div PatchRes(res))>>

\* the six indices of the quad (x, y) of the tile
TileQuad_ColumnMajor(res, x, y) ==
    LET base     == x * PatchRes(res) + y
        right    == base + 1
        up       == base + PatchRes(res)
        up_right == up + 1
    IN  <<base, up_right, up, base, right, up_right>>

TileQuad(res, x, y) ==
    LET base     == y * PatchRes(res) + x
        right    == base + 1
        up       == base + PatchRes(res)
        up_right == up + 1
    IN  <<base, up_right, up, base, right, up_right>>

generate_tile_mesh(res) ==
    Mesh2d("Tile",
           Written(DeclaredVertexCount("tile", res), 1, LAMBDA v, k : TileVertex(res, v)),
           Written(res * res, 6, LAMBDA q, k : TileQuad(res, q % res, q \div res)[k + 1]),
           DeclaredVertexCount("tile", res), DeclaredIndexCount("tile", res), N_TILES)

\* the two vertices that iteration i of arm `arm` of generate_filler_mesh writes
FillerVertex_NoGap(res, arm, i, k) ==
    LET offset == res
    IN  CASE arm = 0 -> <<F32(offset + i), F32(k)>>
          [] arm = 1 -> <<F32(1 - k), F32(offset + i)>>
          [] arm = 2 -> <<F32(-(offset + i)), F32(1 - k)>>
          [] arm = 3 -> <<F32(k), F32(-(offset + i))>>

FillerVertex(res, arm, i, k) ==
    LET offset == res
    IN  CASE arm = 0 -> <<F32(offset + i + 1), F32(k)>>
          [] arm = 1 -> <<F32(1 - k), F32(offset + i + 1)>>
          [] arm = 2 -> <<F32(-(offset + i)), F32(1 - k)>>
          [] arm = 3 -> <<F32(k), F32(-(offset + i))>>

\* bug: the arms are taken to start TILE_RES * 2 vertices apart
FillerQuad_TileStride(res, a) ==
    LET arm       == a \div res
        local     == a % res
        arm_start == arm * res * 2
        bl        == arm_start + local * 2
        br        == bl + 1
        tl        == bl + 2
        tr        == tl + 1
    IN  IF arm % 2 = 0 THEN <<br, bl, tr, bl, tl, tr>> ELSE <<br, bl, tl, br, tl, tr>>

\* the six indices of quad a of the filler
FillerQuad(res, a) ==
    LET arm       == a \div res
        local     == a % res
        arm_start == arm * PatchRes(res) * 2
        bl        == arm_start + local * 2
        br        == bl + 1
        tl        == bl + 2
        tr        == tl + 1
    IN  IF arm % 2 = 0 THEN <<br, bl, tr, bl, tl, tr>> ELSE <<br, bl, tl, br, tl, tr>>

generate_filler_mesh(res) ==
    Mesh2d("Filler",
           Written(4 * PatchRes(res), 2,
                   LAMBDA n, k : FillerVertex(res, n \div PatchRes(res), n % PatchRes(res), k)),
           Written(res * 4, 6, LAMBDA a, k : FillerQuad(res, a)[k + 1]),
           DeclaredVertexCount("fill", res), DeclaredIndexCount("fill", res), N_FILLERS)

\* half = 0.5 * (CLIP_VERT_RES as f32 + 1.0)
TrimHalf(res) == ((ClipVertRes(res) + 1) * MeshSubUnits) \div 2

\* the vertical bar of the trim: iteration i writes (0 - half, y), (1 - half, y)
TrimVerticalVertex(res, i, k) ==
    <<F32(k) - TrimHalf(res), F32(ClipVertRes(res)) - F32(i) - TrimHalf(res)>>

\* the horizontal bar of the trim: iteration i writes (x, 0 - half), (x, 1 - half)
TrimHorizontalVertex(res, i, k) ==
    <<F32(i + 1) - TrimHalf(res), F32(k) - TrimHalf(res)>>

\* both strips of the trim write the same pattern from their base vertex
TrimQuad(base) == <<base + 1, base, base + 2, base + 3, base + 1, base + 2>>

\* the number of quads of the horizontal strip of the trim
TrimHorizontalQuads_Full(res) == ClipVertRes(res)

TrimHorizontalQuads(res) == ClipVertRes(res) - 1

generate_trim_mesh(res) ==
    LET vertical   == Written(ClipVertRes(res) + 1, 2, LAMBDA i, k : TrimVerticalVertex(res, i, k))
        horizontal == Written(ClipVertRes(res), 2, LAMBDA i, k : TrimHorizontalVertex(res, i, k))
        start_h    == Len(vertical)
    IN  Mesh2d("Trim",
               vertical \o horizontal,
               Written(ClipVertRes(res), 6, LAMBDA i, k : TrimQuad(i * 2)[k + 1])
                 \o Written(TrimHorizontalQuads(res), 6, LAMBDA i, k : TrimQuad(start_h + i * 2)[k + 1]),
               DeclaredVertexCount("trim", res), DeclaredIndexCount("trim", res), N_TRIMS)

\* the horizontal bar of the cross: iteration i writes (x, 0), (x, 1), x = i - TILE_RES
CrossHorizontalVertex(res, i, k) == <<F32(i - res), F32(k)>>

\* the vertical bar of the cross: iteration i writes (0, y), (1, y), y = i - TILE_RES
CrossVerticalVertex(res, i, k) == <<F32(k), F32(i - res)>>

CrossHorizontalQuad(i) ==
    LET bl == i * 2
        br == bl + 1
        tl == bl + 2
        tr == br + 2
    IN  <<br, bl, tr, bl, tl, tr>>

\* bug: the vertical strip uses the index pattern of the horizontal strip
CrossVerticalQuad_AsHorizontal(vert_base, i) ==
    LET bl == i * 2
        br == bl + 1
        tl == bl + 2
        tr == br + 2
    IN  <<vert_base + br, vert_base + bl, vert_base + tr,
          vert_base + bl, vert_base + tl, vert_base + tr>>

CrossVerticalQuad(vert_base, i) ==
    LET bl == i * 2
        br == bl + 1
        tl == bl + 2
        tr == br + 2
    IN  <<vert_base + br, vert_base + tr, vert_base + bl,
          vert_base + bl, vert_base + tr, vert_base + tl>>

\* bug: the vertical strip also writes the quad at the centre
CrossVerticalIterations_All(res) == [n \in 1..(res * 2 + 1) |-> n - 1]

\* the vertical strip skips the quad the horizontal strip already covers
CrossVerticalIterations(res) ==
    SelectSeq([n \in 1..(res * 2 + 1) |-> n - 1], LAMBDA i : i # res)

generate_cross_mesh(res) ==
    LET horizontal == Written(PatchRes(res) * 2, 2, LAMBDA i, k : CrossHorizontalVertex(res, i, k))
        vertical   == Written(PatchRes(res) * 2, 2, LAMBDA i, k : CrossVerticalVertex(res, i, k))
        vert_base  == Len(horizontal)
        kept       == CrossVerticalIterations(res)
    IN  Mesh2d("Cross",
               horizontal \o vertical,
               Written(res * 2 + 1, 6, LAMBDA i, k : CrossHorizontalQuad(i)[k + 1])
                 \o Written(Len(kept), 6, LAMBDA n, k : CrossVerticalQuad(vert_base, kept[n + 1])[k + 1]),
               DeclaredVertexCount("cross", res), DeclaredIndexCount("cross", res), N_CROSS)

\* vertices[side * CLIP_VERT_RES + i] of the seam
SeamVertex(res, side, i) ==
    LET r == ClipVertRes(res)
    IN  CASE side = 0 -> <<F32(i), F32(0)>>
          [] side = 1 -> <<F32(r), F32(i)>>
          [] side = 2 -> <<F32(r - i), F32(r)>>
          [] side = 3 -> <<F32(0), F32(r - i)>>

\* the index that closes a seam triangle
SeamWrap_NoWrap(j, vcount) == j

SeamWrap(j, vcount) == j % vcount

SeamTriangle(pair, vcount) ==
    LET j == pair * 2
    IN  <<j + 1, j, SeamWrap(j + 2, vcount)>>

generate_seam_mesh(res) ==
    LET vcount == DeclaredVertexCount("seam", res)
    IN  Mesh2d("Seam",
               Written(4 * ClipVertRes(res), 1,
                       LAMBDA n, k : SeamVertex(res, n \div ClipVertRes(res), n % ClipVertRes(res))),
               Written(vcount \div 2, 3, LAMBDA pair, k : SeamTriangle(pair, vcount)[k + 1]),
               vcount, DeclaredIndexCount("seam", res), N_SEAMS)

\* Mesh2d of the variant that generates its meshes at run time (src/terrain.rs):
\* the contents of the two buffers and the number of indices
RuntimeMesh2d(vertices, indices) ==
    [vertex_buffer |-> vertices, index_buffer |-> indices, index_count |-> Len(indices)]

\* bug: the last index is left as the loop wrote it
OverwriteLast_Keep(indices) == indices

\* if let Some(last_index) = indices.last_mut() { *last_index = 0; }
OverwriteLast(indices) ==
    IF indices = <<>> THEN indices ELSE [indices EXCEPT ![Len(indices)] = 0]

\* TerrainSystem::generate_seam_mesh of src/terrain.rs for a tile resolution:
\* the vertices are written by index, side by side; the index loop steps i by
\* 2 over 0..num_vertices and pushes i + 1, i, i + 2
runtime_generate_seam_mesh(res) ==
    LET side_res     == ClipVertRes(res)
        num_vertices == side_res * 4
        vertices     == Written(num_vertices, 1,
                                LAMBDA n, k : SeamVertex(res, n \div side_res, n % side_res))
        pushed       == Written((num_vertices + 1) \div 2, 3,
                                LAMBDA n, k : <<2 * n + 1, 2 * n, 2 * n + 2>>[k + 1])
    IN  RuntimeMesh2d(vertices, OverwriteLast(pushed))

\* no mesh has been generated at run time
NoRuntimeMesh == RuntimeMesh2d(<<>>, <<>>)

\* TILE_MESH, CROSS_MESH, FILLER_MESH, TRIM_MESH, SEAM_MESH for a tile resolution
GenerateMesh(s, res) ==
    CASE s = "tile"  -> generate_tile_mesh(res)
      [] s = "cross" -> generate_cross_mesh(res)
      [] s = "fill"  -> generate_filler_mesh(res)
      [] s = "trim"  -> generate_trim_mesh(res)
      [] s = "seam"  -> generate_seam_mesh(res)

\* every write of the generator lands inside [Vec2; V_MAX] and [u32; I_MAX]
WithinArrays(m, res) == Len(m.vertices) <= V_MAX(res) /\ Len(m.indices) <= I_MAX(res)

\* a stamp that has not been generated
NoMesh == Mesh2d("", <<>>, <<>>, 0, 0, 0)

\* ------------------------------------------------------------------------
\* State
\* ------------------------------------------------------------------------
VARIABLES
    \* Terrain (crates/wre_terrain/src/lib.rs)
    instances,   \* instances[t][s]: the list <stamp s>.instances of terrain t
    eye,         \* eye[t]: the camera position of t's last update, NoCamera before it
    history,     \* history[t]: "constructed", "updated" once since, or "reupdated"
    \* TerrainSystem (crates/wre-terrain/src/system.rs, component.rs)
    component,   \* component[s]: the buffers and counts of stamp s
    rpass,       \* the draw_indexed calls recorded by the last render, in order
    frame,       \* "constructed", then "updated" after update, "rendered" after its render
    sys_eye,     \* the camera position of the system's last update, NoCamera before it
    gpu_error,   \* a write_buffer beyond the end of its buffer was rejected
    new_result,  \* what the last TerrainSystem::new returned: "ok" or "err"
    loads,       \* the heightmap loads the last TerrainSystem::new attempted, in order
    \* const evaluation of the five meshes (crates/wre-terrain/src/consts.rs)
    tile_res,    \* the TILE_RES the crate is built with
    generated,   \* generated[s]: "pending", "built", or "failed" (a write past the arrays)
    mesh,        \* mesh[s]: the Mesh2d of stamp s once built
    \* one Terrain with all its fields (crates/wre_terrain/src/lib.rs)
    terrain,     \* heightmap, the five components, and how far it has come
    \* Terrain::update in f32 arithmetic (crates/wre_terrain/src/lib.rs)
    f32_eye,     \* camera.eye.xy() as a pair of f32 values
    f32_levels,  \* per level L < N_LEVELS - 1: snapped_pos, next_snap, d and r of the last update
    \* the seam generated at run time (src/terrain.rs)
    runtime_seam, \* the Mesh2d of generate_seam_mesh for tile_res, NoRuntimeMesh before the call
    \* TerrainSystem of the variant that draws with wgpu directly (src/terrain.rs)
    wgpu_terrain, \* the five instance buffers, the five counts, and how far the system has come
    wgpu_rpass,   \* the draw_indexed calls recorded by the last render, in order
    \* World (crates/wre_world/src/lib.rs)
    registered_systems,     \* the keys of the map registered_systems
    system_execution_order, \* the Vec system_execution_order
    last_run,               \* the last run_systems: the registry it started from, the systems it updated
    \* WreRenderer (crates/wre_renderer/src/lib.rs)
    frame_number,  \* the number of frames rendered
    render_fence,  \* render_fence[i] of frames[i]: "signaled", "unsignaled", or "pending" (submitted with work)
    swapchain,     \* TRUE if swapchain is Some
    last_render,   \* the last render call: what it returned, and frame_number and swapchain before it
    \* WreInput (crates/wre_input/src/lib.rs)
    input,         \* the fields of the WreInput
    input_frames   \* how the calls so far form frames, and what was pressed when the last two ended

terrainVars == <<instances, eye, history>>
systemVars == <<component, rpass, frame, sys_eye, gpu_error, new_result, loads>>
stampVars == <<tile_res, generated, mesh>>
clipmapVars == <<terrainVars, systemVars, stampVars, terrain>>
snapVars == <<f32_eye, f32_levels>>
runtimeVars == <<runtime_seam>>
wgpuVars == <<wgpu_terrain, wgpu_rpass>>
worldVars == <<registered_systems, system_execution_order, last_run>>
\* the clipmap terrain in all its variants
terrainSide == <<clipmapVars, snapVars, runtimeVars, wgpuVars>>
\* the parts of the engine outside the clipmap terrain
rendererVars == <<frame_number, render_fence, swapchain, last_render>>
inputVars == <<input, input_frames>>
engineVars == <<worldVars, rendererVars, inputVars>>
restVars == <<snapVars, runtimeVars, wgpuVars, engineVars>>
vars == <<instances, eye, history, component, rpass, frame, sys_eye, gpu_error,
          new_result, loads, tile_res, generated, mesh, terrain, restVars>>

Min(a, b) == IF a <= b THEN a ELSE b

\* no update yet: there is no camera position
NoCamera == <<>>

\* Terrain::new: five components with instances: Vec::new()
NewInstances == [s \in StampTypes |-> <<>>]

\* a slot of a buffer that was never written: buffers start as zero bytes, the
\* zero matrix, which no instance has (every instance has a scale > 0)
Zeroed == [scale |-> 0, rot |-> 0, x |-> 0, y |-> 0]

\* the object a create_buffer / create_bind_group call of the construction of
\* component s returned: each call returns an object of its own
Handle(s, field) == [of |-> s, field |-> field]

\* TerrainComponent::new: a buffer of mesh.instance_count records, its bind
\* group, the vertex and index buffers of the mesh, and the two counts
NewComponent(s) ==
    [instance_bf    |-> [i \in 1..MeshInstanceCount[s] |-> Zeroed],
     instance_bg    |-> Handle(s, "instance_bg"),
     vertex_bf      |-> Handle(s, "vertex_bf"),
     index_bf       |-> Handle(s, "index_bf"),
     instance_count |-> MeshInstanceCount[s],
     index_count    |-> MeshIndexCount[s]]

\* no TerrainSystem: TerrainSystem::new returned before it built anything
NoComponent ==
    [instance_bf |-> <<>>, instance_bg |-> Handle("", ""), vertex_bf |-> Handle("", ""),
     index_bf |-> Handle("", ""), instance_count |-> 0, index_count |-> 0]

\* the heightmap paths a terrain is constructed with
HeightmapPaths ==
    {"assets/heightmap.png", "assets/hills.png", "assets/flat.png", "assets/missing.png"}

\* one call of texture::Texture::from_heightmap and what it returned
Load(path, outcome) == [path |-> path, outcome |-> outcome]

\* TILE_MESH, CROSS_MESH, FILLER_MESH, TRIM_MESH, SEAM_MESH of the built crate
MeshTable == [s \in StampTypes |-> GenerateMesh(s, TILE_RES)]
BuiltMesh == IF MeshTable = MeshTable THEN MeshTable ELSE MeshTable

\* impl From<Mesh2d> for TerrainComponent
ComponentFrom(m) ==
    [instances |-> <<>>, positions |-> m.vertices, indices |-> m.indices]

\* no Terrain has been constructed yet
NoTerrain ==
    [heightmap |-> "", eye |-> NoCamera, history |-> "none",
     component |-> [s \in StampTypes |-> ComponentFrom(NoMesh)]]

\* no TerrainSystem of src/terrain.rs has been constructed
NoWgpuTerrain ==
    [status |-> "none", eye |-> NoCamera,
     instances |-> [s \in StampTypes |-> <<>>],
     count     |-> [s \in StampTypes |-> 0],
     written   |-> [s \in StampTypes |-> 0]]

InitWgpuVars == wgpu_terrain = NoWgpuTerrain /\ wgpu_rpass = <<>>

\* the key codes and mouse buttons of the events explored
KeyCodes == {"KeyW", "Space"}
MouseButtons == {"Left"}

\* what is held down: the two pressed sets
Held(keys, buttons) == [keys |-> keys, mouse_buttons |-> buttons]

\* WreInput::new: Self::default(), every set empty
NewInput ==
    [pressed_keys                   |-> {},
     just_pressed_keys              |-> {},
     just_released_keys             |-> {},
     pressed_mouse_buttons          |-> {},
     just_pressed_mouse_buttons     |-> {},
     just_released_mouse_buttons    |-> {},
     mouse_delta                    |-> <<0, 0>>,
     mouse_scroll_delta             |-> <<0, 0>>,
     previous_pressed_keys          |-> {},
     previous_pressed_mouse_buttons |-> {}]

\* phase "new": no call yet; "frame": start_frame was the last call;
\* "ended": end_frame was the last call; "between": the pressed sets changed
\* after an end_frame.  proper: the frame started with start_frame right after
\* the frame before it had ended.  ended, before: what was held when the last
\* frame and the one before it ended
InitInputVars ==
    /\ input = NewInput
    /\ input_frames = [phase |-> "new", proper |-> FALSE,
                       ended |-> Held({}, {}), before |-> Held({}, {})]

FRAME_OVERLAP == 3

FrameSlots == 0..(FRAME_OVERLAP - 1)

\* no render call yet
NoRender == [result |-> "none", frame_number |-> 0, swapchain |-> FALSE]

\* WreRenderer::new returned Ok: frame_number: 0, the fences of create_frames
\* are created SIGNALED, and init_swapchain has built the swapchain
InitRendererVars ==
    /\ frame_number = 0
    /\ render_fence = [i \in FrameSlots |-> "signaled"]
    /\ swapchain = TRUE
    /\ last_render = NoRender

\* no run_systems call yet
NoRun == [ran |-> FALSE, registered |-> {}, order |-> <<>>, updated |-> <<>>]

\* World::new: registered_systems: HashMap::new(), system_execution_order: Vec::new()
InitWorldVars ==
    /\ registered_systems = {}
    /\ system_execution_order = <<>>
    /\ last_run = NoRun

\* no update in f32 arithmetic has run
InitSnapVars == f32_eye = <<>> /\ f32_levels = <<>>

\* the parts of the engine outside the clipmap terrain, as constructed
InitRest ==
    /\ InitSnapVars
    /\ runtime_seam = NoRuntimeMesh
    /\ InitWgpuVars
    /\ InitWorldVars
    /\ InitRendererVars
    /\ InitInputVars

Init ==
    /\ instances = [t \in TerrainIds |-> NewInstances]
    /\ eye = [t \in TerrainIds |-> NoCamera]
    /\ history = [t \in TerrainIds |-> "constructed"]
    /\ component = [s \in StampTypes |-> NewComponent(s)]
    /\ rpass = <<>>
    /\ frame = "constructed"
    /\ sys_eye = NoCamera
    /\ gpu_error = FALSE
    /\ new_result = "ok"
    /\ loads = <<Load("assets/heightmap.png", "ok")>>
    /\ tile_res = TILE_RES
    /\ generated = [s \in StampTypes |-> "pending"]
    /\ mesh = [s \in StampTypes |-> NoMesh]
    /\ terrain = NoTerrain
    /\ InitRest

\* ------------------------------------------------------------------------
\* Terrain (crates/wre_terrain/src/lib.rs): operations
\* ------------------------------------------------------------------------
\* Terrain::new(heightmap): t is replaced by a freshly constructed terrain
TerrainNew(t) ==
    /\ instances' = [instances EXCEPT ![t] = NewInstances]
    /\ eye' = [eye EXCEPT ![t] = NoCamera]
    /\ history' = [history EXCEPT ![t] = "constructed"]
    /\ UNCHANGED <<systemVars, stampVars, terrain, restVars>>

\* Terrain::update(camera)
TerrainUpdate(t, cam) ==
    /\ instances' = [instances EXCEPT ![t] = UpdateLists(instances[t], cam)]
    /\ eye' = [eye EXCEPT ![t] = cam]
    /\ history' = [history EXCEPT ![t] = IF @ = "constructed" THEN "updated" ELSE "reupdated"]
    /\ UNCHANGED <<systemVars, stampVars, terrain, restVars>>

Next ==
    \/ \E t \in TerrainIds : TerrainNew(t)
    \/ \E t \in TerrainIds, cam \in Cameras : TerrainUpdate(t, cam)

Spec == Init /\ [][Next]_vars

\* ------------------------------------------------------------------------
\* Terrain with its stamps (crates/wre_terrain/src/lib.rs)
\* ------------------------------------------------------------------------
\* Terrain::new(heightmap): the path is kept, each component copies its mesh
StampedNew(heightmap) ==
    /\ terrain' = [heightmap |-> heightmap, eye |-> NoCamera, history |-> "constructed",
                   component |-> [s \in StampTypes |-> ComponentFrom(BuiltMesh[s])]]
    /\ UNCHANGED <<terrainVars, systemVars, stampVars, restVars>>

\* what update does to one component: clear() and push() on its instances
UpdateComponent_Rebuilt(c, list) == [ComponentFrom(NoMesh) EXCEPT !.instances = list]

UpdateComponent(c, list) == [c EXCEPT !.instances = list]

\* Terrain::update(camera) on the terrain with its stamps
StampedUpdate(cam) ==
    LET lists == [s \in StampTypes |-> ClearInstances(terrain.component[s].instances) \o Pushed[cam][s]]
    IN  /\ terrain.history # "none"
        /\ terrain' = [terrain EXCEPT
                         !.component = [s \in StampTypes |-> UpdateComponent(@[s], lists[s])],
                         !.eye = cam,
                         !.history = IF @ = "constructed" THEN "updated" ELSE "reupdated"]
        /\ UNCHANGED <<terrainVars, systemVars, stampVars, restVars>>

StampedNext ==
    \/ \E h \in HeightmapPaths : StampedNew(h)
    \/ \E cam \in Cameras : StampedUpdate(cam)

SpecStamped == Init /\ [][StampedNext]_vars

\* ------------------------------------------------------------------------
\* Const evaluation of the meshes (crates/wre-terrain/src/consts.rs)
\* ------------------------------------------------------------------------
\* const X_MESH: Mesh2d = generate_x_mesh(): a write past the end of the
\* V_MAX / I_MAX arrays stops the evaluation, and the constant does not exist
Generate(s) ==
    LET m == GenerateMesh(s, tile_res)
    IN  /\ generated[s] = "pending"
        /\ generated' = [generated EXCEPT ![s] = IF WithinArrays(m, tile_res) THEN "built" ELSE "failed"]
        /\ mesh' = [mesh EXCEPT ![s] = IF WithinArrays(m, tile_res) THEN m ELSE @]
        /\ UNCHANGED <<tile_res, terrainVars, systemVars, terrain, restVars>>

\* the variant of src/terrain.rs generates its seam when it is constructed
GenerateSeamRuntime ==
    /\ runtime_seam = NoRuntimeMesh
    /\ runtime_seam' = runtime_generate_seam_mesh(tile_res)
    /\ UNCHANGED <<clipmapVars, snapVars, wgpuVars, engineVars>>

StampsNext ==
    \/ \E s \in StampTypes : Generate(s)
    \/ GenerateSeamRuntime

\* the crate is built with any of the tile resolutions
InitStamps ==
    /\ instances = [t \in TerrainIds |-> NewInstances]
    /\ eye = [t \in TerrainIds |-> NoCamera]
    /\ history = [t \in TerrainIds |-> "constructed"]
    /\ component = [s \in StampTypes |-> NewComponent(s)]
    /\ rpass = <<>>
    /\ frame = "constructed"
    /\ sys_eye = NoCamera
    /\ gpu_error = FALSE
    /\ new_result = "ok"
    /\ loads = <<Load("assets/heightmap.png", "ok")>>
    /\ tile_res \in TileResolutions
    /\ generated = [s \in StampTypes |-> "pending"]
    /\ mesh = [s \in StampTypes |-> NoMesh]
    /\ terrain = NoTerrain
    /\ InitRest

SpecStamps == InitStamps /\ [][StampsNext]_vars

\* ------------------------------------------------------------------------
\* TerrainSystem (crates/wre-terrain/src/system.rs): operations
\* ------------------------------------------------------------------------
\* what TerrainSystem::new makes of the result of from_heightmap: `?` returns the error
LoadResult_Default(outcome) == "ok"

LoadResult(outcome) == outcome

\* TerrainSystem::new(device, queue, camera_bgl, render_format, heightmap_path);
\* outcome is what the texture loader makes of the file at the path
SystemNew(path, outcome) ==
    /\ loads' = <<Load(path, outcome)>>
    /\ new_result' = LoadResult(outcome)
    /\ component' = [s \in StampTypes |-> IF LoadResult(outcome) = "ok" THEN NewComponent(s) ELSE NoComponent]
    /\ rpass' = <<>>
    /\ frame' = IF LoadResult(outcome) = "ok" THEN "constructed" ELSE "none"
    /\ sys_eye' = NoCamera
    /\ gpu_error' = FALSE
    /\ UNCHANGED <<terrainVars, stampVars, terrain, restVars>>

\* queue.write_buffer(buffer, 0, data): data replaces the first Len(data) records
WriteBuffer(buffer, data) ==
    [i \in 1..Len(buffer) |-> IF i <= Len(data) THEN data[i] ELSE buffer[i]]

\* a write that does not fit is a validation error and writes nothing
WriteFits(buffer, data) == Len(data) <= Len(buffer)

\* TerrainSystem::update(queue, camera): local lists, then one write per stamp
SystemUpdate(cam) ==
    LET data == UpdateLists(NewInstances, cam)
    IN  /\ frame # "none"
        /\ ~gpu_error
        /\ component' =
              [s \in StampTypes |->
                  IF WriteFits(component[s].instance_bf, data[s])
                  THEN [component[s] EXCEPT !.instance_bf = WriteBuffer(@, data[s])]
                  ELSE component[s]]
        /\ gpu_error' = \E s \in StampTypes : ~WriteFits(component[s].instance_bf, data[s])
        /\ frame' = "updated"
        /\ sys_eye' = cam
        /\ UNCHANGED <<rpass, new_result, loads, terrainVars, stampVars, terrain, restVars>>

\* component.instance_count as u32: the instance range of the draw call
DrawInstanceCount(c) == c.instance_count

\* rpass.draw_terrain(component): set_bind_group(2, instance_bg), set_vertex_buffer,
\* set_index_buffer, draw_indexed(0..index_count, 0, 0..instance_count)
DrawTerrain(s) ==
    [stamp          |-> s,
     instance_bg    |-> component[s].instance_bg,
     vertex_bf      |-> component[s].vertex_bf,
     index_bf       |-> component[s].index_bf,
     index_count    |-> component[s].index_count,
     instance_count |-> DrawInstanceCount(component[s]),
     read           |-> SubSeq(component[s].instance_bf, 1,
                               Min(DrawInstanceCount(component[s]), Len(component[s].instance_bf)))]

\* the order of the five draw_terrain calls in render
RenderOrder_SeamFirst == <<"seam", "tile", "cross", "fill", "trim">>

RenderOrder == <<"tile", "cross", "fill", "trim", "seam">>

\* TerrainSystem::render(rpass, camera_bind_group)
SystemRender ==
    /\ frame # "none"
    /\ ~gpu_error
    /\ rpass' = [i \in 1..Len(RenderOrder) |-> DrawTerrain(RenderOrder[i])]
    /\ frame' = IF frame = "updated" THEN "rendered" ELSE frame
    /\ UNCHANGED <<component, sys_eye, gpu_error, new_result, loads, terrainVars, stampVars, terrain, restVars>>

SystemNext ==
    \/ \E path \in HeightmapPaths, outcome \in {"ok", "err"} : SystemNew(path, outcome)
    \/ \E cam \in Cameras : SystemUpdate(cam)
    \/ SystemRender

SpecSystem == Init /\ [][SystemNext]_vars

\* ------------------------------------------------------------------------
\* f32 arithmetic of Terrain::update.  An f32 is the record [m, e] with the
\* value m * 2^e: m = 0 (zero, e = 0), 2^23 <= |m| < 2^24 (normal), or
\* |m| < 2^23 with e = F32_EMIN (subnormal).  Results are rounded to nearest,
\* ties to even; no value of the model is large enough to overflow.
\* ------------------------------------------------------------------------
\* significand bits of an f32, and the exponent of its smallest subnormal
F32_MANT == 24
F32_EMIN == -149

F32Value(m, e) == [m |-> m, e |-> e]
F32Zero == F32Value(0, 0)

Max(a, b) == IF a >= b THEN a ELSE b
Magnitude(n) == IF n < 0 THEN -n ELSE n

\* the number of bits of n, 0 <= n < 2^30
BitLen(n) == IF n = 0 THEN 0 ELSE CHOOSE b \in 1..30 : 2 ^ (b - 1) <= n /\ n < 2 ^ b

\* the canonical record of m * 2^e, which is representable
F32Canon(m, e) ==
    IF m = 0 THEN F32Zero
    ELSE LET up == Min(F32_MANT - BitLen(Magnitude(m)), e - F32_EMIN)
         IN  IF up >= 0 THEN F32Value(m * 2 ^ up, e - up)
             ELSE F32Value(m \div 2 ^ (-up), e + (-up))

\* m * 2^e rounded to the nearest f32, ties to even
F32Round(m, e) ==
    LET mag  == Magnitude(m)
        sign == IF m < 0 THEN -1 ELSE 1
        drop == Max(BitLen(mag) - F32_MANT, F32_EMIN - e)
    IN  IF m = 0 THEN F32Zero
        ELSE IF drop <= 0 THEN F32Canon(m, e)
        ELSE IF drop > 30 THEN F32Zero
        ELSE LET q    == mag \div 2 ^ drop
                 r    == mag % 2 ^ drop
                 half == 2 ^ (drop - 1)
                 up   == IF r > half \/ (r = half /\ q % 2 = 1) THEN 1 ELSE 0
             IN  IF q + up = 2 ^ F32_MANT
                 THEN F32Canon(sign * 2 ^ (F32_MANT - 1), e + drop + 1)
                 ELSE F32Canon(sign * (q + up), e + drop)

F32Neg(a) == F32Value(-a.m, a.e)

\* the number of guard bits the sum keeps below the operand of larger exponent
\* (4 bits and a sticky bit decide every rounding of a 24-bit significand)
GuardBits == 4

\* a + b: exact when the exponents are close; otherwise the low bits of the
\* operand of smaller exponent are folded into one sticky bit below the guard bits
F32Add(a, b) ==
    IF a.m = 0 THEN b
    ELSE IF b.m = 0 THEN a
    ELSE LET big   == IF a.e >= b.e THEN a ELSE b
             small == IF a.e >= b.e THEN b ELSE a
             gap   == big.e - small.e
             k     == gap - GuardBits
         IN  IF gap <= GuardBits
             THEN F32Round(big.m * 2 ^ gap + small.m, small.e)
             ELSE LET low    == IF k > F32_MANT THEN (IF small.m < 0 THEN -1 ELSE 0)
                                ELSE small.m \div 2 ^ k
                      sticky == IF k > F32_MANT \/ small.m % 2 ^ k # 0 THEN 1 ELSE 0
                  IN  F32Round(2 * (big.m * 2 ^ GuardBits + low) + sticky, big.e - GuardBits - 1)

F32Sub(a, b) == F32Add(a, F32Neg(b))

\* a < b
F32Less(a, b) == F32Sub(a, b).m < 0

\* x / 2^k and x * 2^k: scale and next_scale are powers of two
F32DivPow2(x, k) == F32Round(x.m, x.e - k)
F32MulPow2(x, k) == F32Round(x.m, x.e + k)

\* bug: the fraction is cut off toward zero
F32Floor_Trunc(x) ==
    IF x.e >= 0 THEN x
    ELSE IF -x.e > F32_MANT THEN F32Zero
    ELSE F32Canon((IF x.m < 0 THEN -1 ELSE 1) * (Magnitude(x.m) \div 2 ^ (-x.e)), 0)

\* x.floor()
F32Floor(x) ==
    IF x.e >= 0 THEN x
    ELSE IF -x.e > F32_MANT THEN F32Canon(IF x.m < 0 THEN -1 ELSE 0, 0)
    ELSE F32Canon(x.m \div 2 ^ (-x.e), 0)

\* an integer n as f32, |n| < 2^24
F32Of(n) == F32Canon(n, 0)

\* the exponent of the power of two that is scale at a level
ScaleExp(level) == level + SCALE_OFFSET

\* the coordinates of the camera positions explored: zero, values next to a
\* cell boundary on both sides, values too small or too large for the
\* significand to hold them together with a cell size, and subnormal values
F32Coords ==
    { F32Zero,
      F32Canon(1, -20), F32Canon(-1, -20),
      F32Canon(2 ^ F32_MANT - 1, -19), F32Canon(-(2 ^ F32_MANT - 1), -19),
      F32Of(32), F32Of(-32), F32Of(96), F32Of(-65),
      F32Canon(2 ^ 23 + 1, -9), F32Canon(-(2 ^ 23 + 1), -9),
      F32Canon(2 ^ F32_MANT - 1, 5), F32Canon(1, 100), F32Canon(-1, 100),
      F32Canon(-1, -126), F32Value(1, F32_EMIN), F32Value(-1, F32_EMIN), F32Value(-32, F32_EMIN) }

F32Cameras == F32Coords \X F32Coords

\* (camera_position / scale).floor() * scale on one component, scale = 2^k
F32Snap(c, k) == F32MulPow2(F32Floor(F32DivPow2(c, k)), k)

\* if d < scale { bit } else { 0 } in f32
F32TrimBit(d, level, bit) == IF F32Less(d, F32Of(2 ^ ScaleExp(level))) THEN bit ELSE 0

\* one component of an iteration of the level loop with level < N_LEVELS - 1,
\* in f32: snapped_pos, next_snap, d = camera_position - next_snap, and
\* whether d < scale
F32Axis(c, level) ==
    LET next_snap == F32Snap(c, ScaleExp(level) + 1)
        d         == F32Sub(c, next_snap)
    IN  [snapped_pos |-> F32Snap(c, ScaleExp(level)),
         next_snap   |-> next_snap,
         d           |-> d,
         trim        |-> F32TrimBit(d, level, 1)]

\* F32Axis of every coordinate explored, at every level below the last
F32AxisTable ==
    LET T == [c \in F32Coords |-> [n \in 1..(N_LEVELS - 1) |-> F32Axis(c, n - 1)]]
    IN  IF T = T THEN T ELSE T

\* one iteration of the level loop with level < N_LEVELS - 1, in f32:
\* snapped_pos, next_snap, d and r = (x bit: 2) | (y bit: 1)
F32Level(cam, level) ==
    LET axis == [i \in 1..2 |-> F32AxisTable[cam[i]][level + 1]]
    IN  [snapped_pos |-> <<axis[1].snapped_pos, axis[2].snapped_pos>>,
         next_snap   |-> <<axis[1].next_snap, axis[2].next_snap>>,
         d           |-> <<axis[1].d, axis[2].d>>,
         r           |-> 2 * axis[1].trim + axis[2].trim]

\* Terrain::update(camera) in f32 arithmetic
UpdateF32(cam) ==
    /\ f32_eye' = cam
    /\ f32_levels' = [n \in 1..(N_LEVELS - 1) |-> F32Level(cam, n - 1)]
    /\ UNCHANGED <<clipmapVars, runtimeVars, wgpuVars, engineVars>>

SnapNext == \E cam \in F32Cameras : UpdateF32(cam)

SpecSnap == Init /\ [][SnapNext]_vars

\* ------------------------------------------------------------------------
\* TerrainSystem of src/terrain.rs: instance buffers allocated once in new,
\* refilled by update_terrain_system, drawn by render.  Positions are in
\* units of 1/WgpuSubUnits.
\* ------------------------------------------------------------------------
NUM_LEVELS == 7

\* center = snap + 0.5 * s with s = 1 at level 0: positions are multiples of 1/2
WgpuSubUnits == 2

\* the coordinates of the camera positions explored, in position units:
\* both sides of zero and of the cell boundaries of the two finest levels
WgpuCoords == {-3, -1, 0, 1, 2, 5}

\* camera_position: Vec3
WgpuCameras == WgpuCoords \X WgpuCoords \X WgpuCoords

\* levels[i].scale = (1u32 << i) as f32, levels[i].size = TILE_RESOLUTION << i
LevelScale(i) == 2 ^ i
LevelSize(i) == TILE_RESOLUTION * 2 ^ i

\* max_tiles, max_cross, max_filler, max_trim, max_seam
MaxInstances(s) == IF s = "tile" THEN NUM_LEVELS * 4 * 4 ELSE NUM_LEVELS

\* alloc(count): a buffer of count records, zero-initialized
Alloc(count) == [i \in 1..count |-> Zeroed]

\* (v / s).floor() * s on one component, v in position units
WgpuSnap(v, scale) == (v \div (scale * WgpuSubUnits)) * (scale * WgpuSubUnits)

\* InstanceData { transform, color }: the scale and translation of the transform
WgpuInstance(scale, tx, tz, color) == [scale |-> scale, x |-> tx, z |-> tz, color |-> color]

\* the first trim record of a level: its transform is written in terms of
\* next_snap, scale and tile_center, names the function does not define
UnnamedTrim == [scale |-> 0, x |-> 0, z |-> 0, color |-> "none"]

\* x.clamp(0, 1)
Clamp01(x) == IF x < 0 THEN 0 ELSE IF x > 1 THEN 1 ELSE x

\* bl = base + (x, y) * size + fill on one component
WgpuTileCorner(v, i, x) ==
    WgpuSnap(v, LevelScale(i)) - 2 * LevelSize(i) * WgpuSubUnits
      + x * LevelSize(i) * WgpuSubUnits + Clamp01(x) * LevelScale(i) * WgpuSubUnits

\* the 4x4 tile loop of level i: the middle 2x2 is skipped if i != 0
WgpuTiles(cam, i) ==
    LET kept == SelectSeq(GridOrder, LAMBDA g : ~(i # 0 /\ g[1] \in 1..2 /\ g[2] \in 1..2))
    IN  [n \in 1..Len(kept) |->
            WgpuInstance(LevelScale(i), WgpuTileCorner(cam[1], i, kept[n][1]),
                         WgpuTileCorner(cam[3], i, kept[n][2]), "red")]

\* the cross pushed at every level: snap = camera_position.xz().floor()
WgpuCross(cam, i) ==
    <<WgpuInstance(1, WgpuSnap(cam[1], 1), WgpuSnap(cam[3], 1), "green")>>

\* the filler ring pushed at every level: snap is a Vec3, translated by snap.x, snap.y
WgpuFiller(cam, i) ==
    <<WgpuInstance(1, WgpuSnap(cam[1], LevelScale(i)), WgpuSnap(cam[2], LevelScale(i)), "blue")>>

\* the seam, pushed if i + 1 < levels.len()
WgpuSeam(cam, i) ==
    IF i + 1 < NUM_LEVELS
    THEN <<WgpuInstance(LevelScale(i),
                        WgpuSnap(cam[1], LevelScale(i + 1)) - LevelSize(i + 1) * WgpuSubUnits,
                        WgpuSnap(cam[3], LevelScale(i + 1)) - LevelSize(i + 1) * WgpuSubUnits,
                        "yellow")>>
    ELSE <<>>

\* the trim, if i + 1 < levels.len(): two pushes, the second at
\* center = snap + 0.5 * s
WgpuTrim(cam, i) ==
    IF i + 1 < NUM_LEVELS
    THEN <<UnnamedTrim,
           WgpuInstance(LevelScale(i),
                        WgpuSnap(cam[1], LevelScale(i)) + (LevelScale(i) * WgpuSubUnits) \div 2,
                        WgpuSnap(cam[3], LevelScale(i)) + (LevelScale(i) * WgpuSubUnits) \div 2,
                        "cyan")>>
    ELSE <<>>

\* what one iteration of the level loop pushes onto the list of stamp s
WgpuLevel(cam, i, s) ==
    CASE s = "tile"  -> WgpuTiles(cam, i)
      [] s = "cross" -> WgpuCross(cam, i)
      [] s = "fill"  -> WgpuFiller(cam, i)
      [] s = "seam"  -> WgpuSeam(cam, i)
      [] s = "trim"  -> WgpuTrim(cam, i)

RECURSIVE WgpuData(_, _, _)
\* tile_data, filler_data, trim_data, cross_data, seam_data after levels 0..n-1
WgpuData(cam, n, s) ==
    IF n = 0 THEN <<>> ELSE WgpuData(cam, n - 1, s) \o WgpuLevel(cam, n - 1, s)

\* the order of the five queue.write_buffer calls
WgpuWriteOrder == <<"tile", "cross", "seam", "trim", "fill">>

\* the position of a stamp in a sequence of stamps
PositionIn(order, s) == CHOOSE k \in 1..Len(order) : order[k] = s

\* TerrainSystem::new
WgpuNew ==
    /\ wgpu_terrain' =
          [status |-> "constructed", eye |-> NoCamera,
           instances |-> [s \in StampTypes |-> Alloc(MaxInstances(s))],
           count     |-> [s \in StampTypes |-> 0],
           written   |-> [s \in StampTypes |-> 0]]
    /\ wgpu_rpass' = <<>>
    /\ UNCHANGED <<clipmapVars, snapVars, runtimeVars, engineVars>>

\* TerrainSystem::update_terrain_system(queue, camera_position): the five
\* counts are set, then the five lists are written in order.  A write that
\* does not fit its buffer is a validation error: it writes nothing, and
\* with no error handler installed the call panics, so the writes after it
\* do not happen
WgpuUpdate(cam) ==
    LET data    == [s \in StampTypes |-> WgpuData(cam, NUM_LEVELS, s)]
        fits(s) == WriteFits(wgpu_terrain.instances[s], data[s])
        done(s) == \A k \in 1..PositionIn(WgpuWriteOrder, s) : fits(WgpuWriteOrder[k])
    IN  /\ wgpu_terrain.status \in {"constructed", "updated"}
        /\ wgpu_terrain' =
              [status |-> IF \A s \in StampTypes : fits(s) THEN "updated" ELSE "panicked",
               eye |-> cam,
               instances |-> [s \in StampTypes |->
                                 IF done(s) THEN WriteBuffer(wgpu_terrain.instances[s], data[s])
                                 ELSE wgpu_terrain.instances[s]],
               count     |-> [s \in StampTypes |-> Len(data[s])],
               written   |-> [s \in StampTypes |-> IF done(s) THEN Len(data[s]) ELSE 0]]
        /\ UNCHANGED <<wgpu_rpass, clipmapVars, snapVars, runtimeVars, engineVars>>

\* the order of the five draw_indexed calls of render
WgpuRenderOrder == <<"tile", "cross", "seam", "trim", "fill">>

\* TerrainSystem::render: draw_indexed(0..index_count, 0, 0..<stamp>_count) per stamp
WgpuRender ==
    /\ wgpu_terrain.status \in {"constructed", "updated"}
    /\ wgpu_rpass' = [k \in 1..Len(WgpuRenderOrder) |->
                         [stamp |-> WgpuRenderOrder[k],
                          instance_count |-> wgpu_terrain.count[WgpuRenderOrder[k]]]]
    /\ UNCHANGED <<wgpu_terrain, clipmapVars, snapVars, runtimeVars, engineVars>>

WgpuNext ==
    \/ WgpuNew
    \/ \E cam \in WgpuCameras : WgpuUpdate(cam)
    \/ WgpuRender

SpecWgpu == Init /\ [][WgpuNext]_vars

\* ------------------------------------------------------------------------
\* World (crates/wre_world/src/lib.rs): the registry of systems
\* ------------------------------------------------------------------------
\* the longest system_execution_order from which a run is explored
MaxOrder == 5

\* system types a game registers: one that only moves entities, one whose
\* update registers another type, one whose update registers its own type
\* again, and the type that only another system registers
SystemTypes == {"Mover", "Spawner", "Reloader", "Spawned"}

\* the system types a game registers from outside of a run
GameSystems == {"Mover", "Spawner", "Reloader"}

\* the type System::update of a type registers on the world it is given
RegistersOnUpdate(t) ==
    CASE t = "Spawner"  -> "Spawned"
      [] t = "Reloader" -> "Reloader"
      [] OTHER          -> "none"

\* the two fields of a World that the registry consists of
Registry(map, order) == [registered_systems |-> map, system_execution_order |-> order]

\* register_system::<S>() on a world: insert into the map, and push onto the
\* order if the map had no entry of the type
register_system(world, t) ==
    Registry(world.registered_systems \cup {t},
             IF t \in world.registered_systems
             THEN world.system_execution_order
             ELSE Append(world.system_execution_order, t))

\* system.update(self) of a system of type t
UpdateSystem(world, t) ==
    IF RegistersOnUpdate(t) = "none" THEN world ELSE register_system(world, RegistersOnUpdate(t))

RECURSIVE RunLoop(_, _, _, _, _)
\* for type_id in order { if let Some(system) = registered_systems.get_mut(..) { system.update(self) } }
\* from position k of the cloned order; taken is the map moved out of self
RunLoop(k, order, taken, world, updated) ==
    IF k > Len(order) THEN [world |-> world, updated |-> updated]
    ELSE IF order[k] \in taken
         THEN RunLoop(k + 1, order, taken, UpdateSystem(world, order[k]), Append(updated, order[k]))
         ELSE RunLoop(k + 1, order, taken, world, updated)

\* World::register_system::<S>()
RegisterSystem(t) ==
    LET after == register_system(Registry(registered_systems, system_execution_order), t)
    IN  /\ Len(system_execution_order) < MaxOrder
        /\ registered_systems' = after.registered_systems
        /\ system_execution_order' = after.system_execution_order
        /\ UNCHANGED <<last_run, terrainSide, rendererVars, inputVars>>

\* World::run_systems: the map is taken out of self, which leaves an empty
\* map there for the run; the systems of the cloned order are updated; the
\* taken map is put back, replacing the map of the run
RunSystems ==
    LET taken == registered_systems
        order == system_execution_order
        ran   == RunLoop(1, order, taken, Registry({}, system_execution_order), <<>>)
    IN  /\ Len(system_execution_order) < MaxOrder
        /\ registered_systems' = taken
        /\ system_execution_order' = ran.world.system_execution_order
        /\ last_run' = [ran |-> TRUE, registered |-> taken, order |-> order, updated |-> ran.updated]
        /\ UNCHANGED <<terrainSide, rendererVars, inputVars>>

WorldNext ==
    \/ \E t \in GameSystems : RegisterSystem(t)
    \/ RunSystems

SpecWorld == Init /\ [][WorldNext]_vars

\* ------------------------------------------------------------------------
\* WreRenderer (crates/wre_renderer/src/lib.rs): the frames in flight
\* ------------------------------------------------------------------------
\* the largest frame_number from which a render is explored
MaxFrames == 4

\* the index of get_current_frame: frame_number % FRAME_OVERLAP
CurrentFrame == frame_number % FRAME_OVERLAP

\* the fallible calls of render in order, each followed by `?`
RenderSteps ==
    <<"wait_for_fences", "reset_fences", "acquire_next_image", "reset_command_buffer",
      "begin_command_buffer", "end_command_buffer", "queue_submit2", "queue_present">>

\* how far a render call gets: the step that returns an error, or "done"
RenderOutcomes == {RenderSteps[k] : k \in 1..Len(RenderSteps)} \cup {"done"}

\* step `step` of render is reached and returns Ok when the call fails at `failed`
Passed(step, failed) ==
    \/ failed = "done"
    \/ PositionIn(RenderSteps, step) < PositionIn(RenderSteps, failed)

\* the fence of the current frame after a render call that fails at `failed`:
\* reset_fences unsignals it, queue_submit2 hands it to the queue with the work
FenceAfter(fence, failed) ==
    IF Passed("queue_submit2", failed) THEN "pending"
    ELSE IF Passed("reset_fences", failed) THEN "unsignaled"
    ELSE fence

\* WreRenderer::render without a swapchain: return Ok(())
RenderNoSwapchain ==
    /\ ~swapchain
    /\ last_render' = [result |-> "ok", frame_number |-> frame_number, swapchain |-> FALSE]
    /\ UNCHANGED <<frame_number, render_fence, swapchain, terrainSide, worldVars, inputVars>>

\* WreRenderer::render with a swapchain.  wait_for_fences returns Ok only if
\* the fence is signaled within the timeout: a fence that is pending when
\* render is called is signaled by GpuSignal before the call or times out
Render(failed) ==
    /\ swapchain
    /\ frame_number < MaxFrames
    /\ render_fence[CurrentFrame] # "signaled" => failed = "wait_for_fences"
    /\ render_fence' = [render_fence EXCEPT ![CurrentFrame] = FenceAfter(@, failed)]
    /\ frame_number' = IF failed = "done" THEN frame_number + 1 ELSE frame_number
    /\ last_render' = [result |-> IF failed = "done" THEN "ok" ELSE "err",
                       frame_number |-> frame_number, swapchain |-> TRUE]
    /\ UNCHANGED <<swapchain, terrainSide, worldVars, inputVars>>

\* the queue finishes the work submitted with the fence of frame i
GpuSignal(i) ==
    /\ render_fence[i] = "pending"
    /\ render_fence' = [render_fence EXCEPT ![i] = "signaled"]
    /\ UNCHANGED <<frame_number, swapchain, last_render, terrainSide, worldVars, inputVars>>

\* WreRenderer::init_swapchain: the old swapchain is taken out, and the new
\* one is stored only if it and its images could be built
InitSwapchain(built) ==
    /\ swapchain' = built
    /\ UNCHANGED <<frame_number, render_fence, last_render, terrainSide, worldVars, inputVars>>

RendererNext ==
    \/ RenderNoSwapchain
    \/ \E failed \in RenderOutcomes : Render(failed)
    \/ \E i \in FrameSlots : GpuSignal(i)
    \/ \E built \in BOOLEAN : InitSwapchain(built)

SpecRenderer == Init /\ [][RendererNext]_vars

\* ------------------------------------------------------------------------
\* WreInput (crates/wre_input/src/lib.rs): edges of keys and mouse buttons
\* ------------------------------------------------------------------------
\* bug: the pressed sets are not copied, only the edge sets are cleared
start_frame_NoSnapshot(inp) ==
    [inp EXCEPT !.just_pressed_keys = {},
               !.just_released_keys = {},
               !.just_pressed_mouse_buttons = {},
               !.just_released_mouse_buttons = {},
               !.mouse_delta = <<0, 0>>,
               !.mouse_scroll_delta = <<0, 0>>]

\* WreInput::start_frame
start_frame(inp) ==
    [inp EXCEPT !.previous_pressed_keys = inp.pressed_keys,
               !.previous_pressed_mouse_buttons = inp.pressed_mouse_buttons,
               !.just_pressed_keys = {},
               !.just_released_keys = {},
               !.just_pressed_mouse_buttons = {},
               !.just_released_mouse_buttons = {},
               !.mouse_delta = <<0, 0>>,
               !.mouse_scroll_delta = <<0, 0>>]

\* WreInput::end_frame: the four loops insert into the edge sets
end_frame(inp) ==
    [inp EXCEPT !.just_pressed_keys = @ \cup (inp.pressed_keys \ inp.previous_pressed_keys),
               !.just_released_keys = @ \cup (inp.previous_pressed_keys \ inp.pressed_keys),
               !.just_pressed_mouse_buttons =
                   @ \cup (inp.pressed_mouse_buttons \ inp.previous_pressed_mouse_buttons),
               !.just_released_mouse_buttons =
                   @ \cup (inp.previous_pressed_mouse_buttons \ inp.pressed_mouse_buttons)]

\* start_frame is called: "once per frame before processing new events"
StartFrame ==
    /\ input' = start_frame(input)
    /\ input_frames' = [input_frames EXCEPT
                            !.phase = "frame",
                            !.proper = input_frames.phase \in {"new", "ended"}]
    /\ UNCHANGED <<terrainSide, worldVars, rendererVars>>

\* end_frame is called: "once per frame after processing all events"; the
\* RedrawRequested handler of WreApp calls it without a start_frame
EndFrame ==
    /\ input' = end_frame(input)
    /\ input_frames' = [phase  |-> "ended",
                        proper |-> input_frames.phase = "frame" /\ input_frames.proper,
                        ended  |-> Held(input.pressed_keys, input.pressed_mouse_buttons),
                        before |-> input_frames.ended]
    /\ UNCHANGED <<terrainSide, worldVars, rendererVars>>

\* the phase after a change of the pressed sets
AfterChange(phase) == IF phase \in {"new", "ended"} THEN "between" ELSE phase

\* an event changes pressed_keys: the key goes down or up
SetKey(key, down) ==
    /\ input' = [input EXCEPT !.pressed_keys = IF down THEN @ \cup {key} ELSE @ \ {key}]
    /\ input_frames' = [input_frames EXCEPT !.phase = AfterChange(@)]
    /\ UNCHANGED <<terrainSide, worldVars, rendererVars>>

\* an event changes pressed_mouse_buttons
SetMouseButton(button, down) ==
    /\ input' = [input EXCEPT !.pressed_mouse_buttons = IF down THEN @ \cup {button} ELSE @ \ {button}]
    /\ input_frames' = [input_frames EXCEPT !.phase = AfterChange(@)]
    /\ UNCHANGED <<terrainSide, worldVars, rendererVars>>

InputNext ==
    \/ StartFrame
    \/ EndFrame
    \/ \E key \in KeyCodes, down \in BOOLEAN : SetKey(key, down)
    \/ \E button \in MouseButtons, down \in BOOLEAN : SetMouseButton(button, down)

SpecInput == Init /\ [][InputNext]_vars

\* ------------------------------------------------------------------------
\* Properties
\* ------------------------------------------------------------------------
\* terrain t has been updated since its construction
Updated(t) == history[t] # "constructed"

\* the records of a list that belong to level L (their scale is scale(L))
AtLevel(list, L) == SelectSeq(list, LAMBDA r : r.scale = Scale(L))

Levels == 0..(N_LEVELS - 1)

\* C1: one update emits exactly 16 Tile instances for level 0 and 12 for every
\* other level, exactly 1 Cross, N_LEVELS Ring, N_LEVELS-1 Trim and N_LEVELS-1
\* Seam instances (124 tiles in total for N_LEVELS = 10).
C1_InstanceCounts ==
    \A t \in TerrainIds :
        Updated(t) =>
            /\ Len(AtLevel(instances[t].tile, 0)) = 16
            /\ \A L \in Levels \ {0} : Len(AtLevel(instances[t].tile, L)) = 12
            /\ Len(instances[t].tile) = 16 + (N_LEVELS - 1) * 12
            /\ Len(instances[t].cross) = 1
            /\ Len(instances[t].fill) = N_LEVELS
            /\ Len(instances[t].trim) = N_LEVELS - 1
            /\ Len(instances[t].seam) = N_LEVELS - 1

\* the scenario of the specification: camera at (0,0) gives 124 tiles
C1_Witness ==
    \E t \in TerrainIds :
        Updated(t) /\ eye[t] = <<0, 0>> /\ Len(instances[t].tile) = 124

\* C2: in every reachable state each instance list is at most as long as the
\* declared maximum instance count of its stamp (N_TILES, N_CROSS, N_FILLERS,
\* N_TRIMS, N_SEAMS).
C2_ListsWithinCapacity ==
    \A t \in TerrainIds, s \in StampTypes : Len(instances[t][s]) <= MeshInstanceCount[s]

\* a terrain updated more than once whose ring list is exactly at its maximum
C2_Witness ==
    \E t \in TerrainIds : history[t] = "reupdated" /\ Len(instances[t].fill) = N_FILLERS

\* C4: update is history-independent: two terrains whose last update had the
\* same camera position hold equal lists, whatever was updated before; so a
\* terrain with a history equals a freshly constructed one updated once.
C4_HistoryIndependent ==
    \A t, u \in TerrainIds :
        (Updated(t) /\ Updated(u) /\ eye[t] = eye[u]) => instances[t] = instances[u]

\* a fresh terrain updated once next to one updated repeatedly, same camera
C4_Witness ==
    /\ history["a"] = "updated"
    /\ history["b"] = "reupdated"
    /\ eye["a"] = eye["b"]
    /\ Len(instances["b"].tile) > 0

\* the number of records of stamp s that the updates have uploaded into its buffer
Uploaded(s) ==
    Cardinality({i \in 1..Len(component[s].instance_bf) : component[s].instance_bf[i] # Zeroed})

\* C3: the instance count of each draw call that render issues after an update
\* equals the number of records that update uploaded for the stamp, not the
\* capacity of the buffer, and no slot beyond the uploaded records is read.
C3_DrawCountIsUploaded ==
    frame = "rendered" =>
        \A i \in 1..Len(rpass) :
            /\ rpass[i].instance_count = Uploaded(rpass[i].stamp)
            /\ \A k \in 1..Len(rpass[i].read) : rpass[i].read[k] # Zeroed

\* C5: snap invariance within a grid cell: two camera positions in the same
\* cell of level L (same floor(p / scale(L)) on both axes) give the same level-L
\* instances of every stamp, the trim rotation included.
SameCell(p, q, L) ==
    \A i \in {1, 2} : p[i] \div (Scale(L) * SubUnits) = q[i] \div (Scale(L) * SubUnits)

Abs(n) == IF n < 0 THEN -n ELSE n

Near(p, q) == \A i \in {1, 2} : Abs(p[i] - q[i]) < Scale(0) * SubUnits

C8_TrimIndex ==
    \A t \in TerrainIds :
        Updated(t) =>
            \A L \in 0..(N_LEVELS - 2) :
                LET rec == instances[t].trim[L + 1]
                    cell == Scale(L) * SubUnits
                    dx == eye[t][1] - (eye[t][1] \div (2 * cell)) * (2 * cell)
                    dy == eye[t][2] - (eye[t][2] \div (2 * cell)) * (2 * cell)
                IN  /\ rec.scale = Scale(L)
                    /\ \E r \in 0..3 :
                          /\ rec.rot = ROTATIONS[r]
                          /\ (r \div 2 = 1) <=> (dx < cell)
                          /\ (r % 2 = 1) <=> (dy < cell)
                          /\ (dx = 0 /\ dy = 0) => r = 3
                          /\ (dx = cell) => r \div 2 = 0
                          /\ (dy = cell) => r % 2 = 0

\* d.x = scale(0) exactly and d.y = 0 at level 0: only bit 1 is set
C8_Witness ==
    \E t \in TerrainIds :
        /\ Updated(t)
        /\ eye[t] = <<Scale(0) * SubUnits, 0>>
        /\ instances[t].trim[1].rot = ROTATIONS[1]

ExpectedTile(c, L, x) ==
    (c \div (Scale(L) * SubUnits)) * (Scale(L) * SubUnits)
        - 2 * TILE_RES * Scale(L) * SubUnits
        + x * TILE_RES * Scale(L) * SubUnits
        + (IF x >= 2 THEN Scale(L) * SubUnits ELSE 0)

ExpectedTiles(cam, L) ==
    { [scale |-> Scale(L), rot |-> IDENTITY,
       x |-> ExpectedTile(cam[1], L, p[1]), y |-> ExpectedTile(cam[2], L, p[2])] :
      p \in { q \in (0..3) \X (0..3) : ~(L # 0 /\ q[1] \in {1, 2} /\ q[2] \in {1, 2}) } }

C10_TilePlacement ==
    \A t \in TerrainIds :
        Updated(t) =>
            \A L \in Levels :
                LET tiles == AtLevel(instances[t].tile, L)
                IN  /\ { tiles[i] : i \in 1..Len(tiles) } = ExpectedTiles(eye[t], L)
                    /\ Len(tiles) = Cardinality(ExpectedTiles(eye[t], L))

\* a camera with one negative coordinate: level 1 holds its twelve tiles
C10_Witness ==
    \E t \in TerrainIds :
        /\ Updated(t)
        /\ eye[t] = <<-1, Scale(0) * SubUnits>>
        /\ Len(AtLevel(instances[t].tile, 1)) = 12

\* ------------------------------------------------------------------------
\* Properties of the generated stamps
\* ------------------------------------------------------------------------
Built(s) == generated[s] = "built"

\* the first index_count entries of the index array of a mesh: what the
\* generator wrote there, then the 0 the array was filled with
IndexBuffer(m) ==
    IF m.index_count <= Len(m.indices)
    THEN SubSeq(m.indices, 1, m.index_count)
    ELSE m.indices \o [i \in 1..(m.index_count - Len(m.indices)) |-> 0]

\* the entries of a sequence of indices that name no vertex of vcount vertices
OutOfRange(index_bf, vcount) == SelectSeq(index_bf, LAMBDA v : v < 0 \/ v >= vcount)

\* C11: every entry of a generated stamp's index sequence at positions
\* 0..index_count-1 is below that stamp's vertex_count
C11_IndicesBelowVertexCount ==
    \A s \in StampTypes :
        Built(s) => OutOfRange(IndexBuffer(mesh[s]), mesh[s].vertex_count) = <<>>

\* all five stamps of the built resolution are generated, and each uses its last vertex
C11_Witness ==
    /\ tile_res = TILE_RES
    /\ \A s \in StampTypes :
          /\ Built(s)
          /\ OutOfRange(IndexBuffer(mesh[s]), mesh[s].vertex_count - 1) # <<>>

\* the closed forms of the counts, as stated: <<V, I>> of stamp s
ClosedForm(s, res) ==
    LET patch == res + 1
        clipv == res * 4 + 2
    IN  CASE s = "tile"  -> <<patch * patch, 6 * res * res>>
          [] s = "fill"  -> <<8 * patch, 24 * res>>
          [] s = "trim"  -> <<(2 * clipv + 1) * 2, (2 * clipv - 1) * 6>>
          [] s = "cross" -> <<8 * patch, 24 * res + 6>>
          [] s = "seam"  -> <<4 * clipv, 6 * clipv>>

\* C12: the number of vertices and of indices each generator writes equals
\* the declared count, which is the closed form; for TILE_RES = 64 the tile
\* has 4225 vertices and 24576 indices, the ring 520 and 1536
C12_WrittenCountsAreClosedForms ==
    /\ \A s \in StampTypes :
          Built(s) =>
              /\ Len(mesh[s].vertices) = ClosedForm(s, tile_res)[1]
              /\ Len(mesh[s].indices) = ClosedForm(s, tile_res)[2]
              /\ mesh[s].vertex_count = ClosedForm(s, tile_res)[1]
              /\ mesh[s].index_count = ClosedForm(s, tile_res)[2]
    /\ (tile_res = 64 /\ Built("tile")) =>
          Len(mesh["tile"].vertices) = 4225 /\ Len(mesh["tile"].indices) = 24576
    /\ (tile_res = 64 /\ Built("fill")) =>
          Len(mesh["fill"].vertices) = 520 /\ Len(mesh["fill"].indices) = 1536

\* all five stamps are generated, at the built resolution and at another one
C12_Witness ==
    /\ tile_res = TILE_RESOLUTION
    /\ \A s \in StampTypes : Built(s) /\ Len(mesh[s].indices) > 0

\* C13: vertex v of the tile is at (v mod PATCH_RES, v div PATCH_RES), and
\* the index sequence lists the unit quads row-major, quad (x, y) as base,
\* up+1, up, base, right, up+1; a tile of resolution 2 has 4 quads, 24 indices
C13_TileLayout ==
    Built("tile") =>
        LET m     == mesh["tile"]
            patch == tile_res + 1
        IN  /\ \A v \in 0..(m.vertex_count - 1) :
                  m.vertices[v + 1] = <<F32(v % patch), F32(v \div patch)>>
            /\ Len(m.indices) = 6 * tile_res * tile_res
            /\ \A y \in 0..(tile_res - 1), x \in 0..(tile_res - 1) :
                  LET q     == y * tile_res + x
                      base  == y * patch + x
                      right == base + 1
                      up    == base + patch
                  IN  SubSeq(m.indices, 6 * q + 1, 6 * q + 6)
                        = <<base, up + 1, up, base, right, up + 1>>
            /\ tile_res = 2 => Len(m.indices) = 24

\* the tile of resolution 2 is generated
C13_Witness == tile_res = 2 /\ Built("tile") /\ Len(mesh["tile"].indices) = 24

\* ------------------------------------------------------------------------
\* Properties of TerrainSystem::render and TerrainSystem::new
\* ------------------------------------------------------------------------
\* the stamp types in the order they are drawn: Tile, Cross, Ring, Trim, Seam
DrawnInOrder == <<"tile", "cross", "fill", "trim", "seam">>

\* C14: every render issues exactly five indexed-instanced draw calls, one per
\* stamp type and none twice, in the order Tile, Cross, Ring, Trim, Seam, each
\* with the vertex buffer, index buffer, index count and instance buffer of
\* its own stamp
C14_FiveDrawsInFixedOrder ==
    rpass # <<>> =>
        /\ Len(rpass) = 5
        /\ \A i \in 1..5 :
              LET s == DrawnInOrder[i]
              IN  /\ rpass[i].stamp = s
                  /\ rpass[i].vertex_bf = Handle(s, "vertex_bf")
                  /\ rpass[i].index_bf = Handle(s, "index_bf")
                  /\ rpass[i].instance_bg = Handle(s, "instance_bg")
                  /\ rpass[i].index_count = MeshIndexCount[s]
                  /\ frame = "rendered" =>
                        \A k \in 1..Len(rpass[i].read) : rpass[i].read[k] = component[s].instance_bf[k]
        /\ \A i, j \in 1..5 : rpass[i].stamp = rpass[j].stamp => i = j

\* a render after an update has recorded its draw calls
C14_Witness == frame = "rendered" /\ Len(rpass) = 5 /\ rpass[1].read[1].scale = Scale(0)

\* C15: construction fails exactly when the heightmap load fails: the load is
\* attempted once, its error is what new returns and then there is no
\* TerrainSystem and nothing of one; a successful load gives a TerrainSystem;
\* update and render report no error
C15_ConstructionFailsIffLoadFails ==
    /\ Len(loads) = 1
    /\ new_result = "err" <=> loads[1].outcome = "err"
    /\ new_result = "err" =>
          /\ frame = "none"
          /\ rpass = <<>>
          /\ sys_eye = NoCamera
          /\ \A s \in StampTypes : component[s] = NoComponent
    /\ new_result = "ok" =>
          /\ frame \in {"constructed", "updated", "rendered"}
          /\ \A s \in StampTypes : Len(component[s].instance_bf) = MeshInstanceCount[s]
    /\ ~gpu_error

\* a construction whose heightmap could not be loaded
C15_Witness == new_result = "err" /\ loads = <<Load("assets/missing.png", "err")>>

\* ------------------------------------------------------------------------
\* Properties of the terrain with its stamps
\* ------------------------------------------------------------------------
\* the step is an update of the constructed terrain
IsUpdate == terrain.history # "none" /\ terrain'.history \in {"updated", "reupdated"}

\* C16: update leaves every stamp unchanged: the vertex positions, the index
\* sequence and the two counts of each stamp stay what they were, and apart
\* from the five instance lists nothing of the terrain changes
C16_UpdateLeavesStampsUnchanged ==
    [][IsUpdate =>
          /\ terrain'.heightmap = terrain.heightmap
          /\ \A s \in StampTypes :
                /\ terrain'.component[s].positions = terrain.component[s].positions
                /\ terrain'.component[s].indices = terrain.component[s].indices
                /\ Len(terrain'.component[s].positions) = DeclaredVertexCount(s, TILE_RES)
                /\ Len(terrain'.component[s].indices) = DeclaredIndexCount(s, TILE_RES)]_vars

\* the terrain was updated more than once and still has its tile stamp
C16_Witness ==
    /\ terrain.history = "reupdated"
    /\ Len(terrain.component["tile"].instances) > 0
    /\ Len(terrain.component["tile"].positions) = (TILE_RES + 1) * (TILE_RES + 1)

\* ------------------------------------------------------------------------
\* Properties of the order of the lists
\* ------------------------------------------------------------------------
\* the grid positions of a level L >= 1 that are not skipped, x ascending
\* and then y ascending
OuterTwelve ==
    << <<0, 0>>, <<0, 1>>, <<0, 2>>, <<0, 3>>, <<1, 0>>, <<1, 3>>,
       <<2, 0>>, <<2, 3>>, <<3, 0>>, <<3, 1>>, <<3, 2>>, <<3, 3>> >>

\* the tile of level L at grid position p for camera cam
TileAt(cam, L, p) ==
    [scale |-> Scale(L), rot |-> IDENTITY,
     x |-> ExpectedTile(cam[1], L, p[1]), y |-> ExpectedTile(cam[2], L, p[2])]

\* C17: the lists are order-stable: the Tile list is by level ascending and in
\* a level by x ascending, then y ascending, so level 0 is at positions 0..15
\* and level L >= 1 at 16+12(L-1)..16+12L-1; position k of the Ring list and
\* of the Seam and Trim lists holds level k
C17_ListOrder ==
    \A t \in TerrainIds :
        Updated(t) =>
            LET l == instances[t]
            IN  /\ Len(l.tile) = 16 + 12 * (N_LEVELS - 1)
                /\ \A p \in 0..15 : l.tile[p + 1] = TileAt(eye[t], 0, <<p \div 4, p % 4>>)
                /\ \A L \in 1..(N_LEVELS - 1), j \in 0..11 :
                      l.tile[16 + 12 * (L - 1) + j + 1] = TileAt(eye[t], L, OuterTwelve[j + 1])
                /\ Len(l.fill) = N_LEVELS
                /\ \A k \in 0..(N_LEVELS - 1) : l.fill[k + 1].scale = Scale(k)
                /\ Len(l.seam) = N_LEVELS - 1 /\ Len(l.trim) = N_LEVELS - 1
                /\ \A k \in 0..(N_LEVELS - 2) :
                      l.seam[k + 1].scale = Scale(k) /\ l.trim[k + 1].scale = Scale(k)

\* an updated terrain whose tile at list position 1 is the grid position (0, 1)
\* of level 0 and whose last tile is of the coarsest level
C17_Witness ==
    \E t \in TerrainIds :
        /\ Updated(t)
        /\ instances[t].tile[2] = TileAt(eye[t], 0, <<0, 1>>)
        /\ instances[t].tile[2] # TileAt(eye[t], 0, <<1, 0>>)
        /\ instances[t].tile[16 + 12 * (N_LEVELS - 1)].scale = Scale(N_LEVELS - 1)

\* ------------------------------------------------------------------------
\* Geometry of the placed stamps.  World lengths are in fine units: one world
\* unit is SubUnits * MeshSubUnits fine units, so a position p is
\* p * MeshSubUnits and a mesh coordinate v at scale s is v * s * SubUnits.
\* A box is <<low x, low y, high x, high y>>.
\* ------------------------------------------------------------------------
\* a rotation about the z axis by a multiple of 90 degrees, counter-clockwise
Rotate(v, degrees) ==
    CASE degrees = 0   -> v
      [] degrees = 90  -> <<-v[2], v[1]>>
      [] degrees = 180 -> <<-v[1], -v[2]>>
      [] degrees = 270 -> <<v[2], -v[1]>>

\* Mat4::from_scale_rotation_translation(scale, rotation, translation) applied
\* to the mesh position v: scale, then rotate, then translate
TransformPoint(inst, v) ==
    LET r == Rotate(v, inst.rot)
    IN  <<inst.x * MeshSubUnits + inst.scale * SubUnits * r[1],
          inst.y * MeshSubUnits + inst.scale * SubUnits * r[2]>>

SetMin(S) == CHOOSE a \in S : \A b \in S : a <= b
SetMax(S) == CHOOSE a \in S : \A b \in S : a >= b

\* the bounding box of a set of points
BoxOf(points) ==
    <<SetMin({p[1] : p \in points}), SetMin({p[2] : p \in points}),
      SetMax({p[1] : p \in points}), SetMax({p[2] : p \in points})>>

\* quad q (from 1) of a component: the mesh positions of its six indices
QuadPoints(c, q) == [k \in 1..6 |-> c.positions[c.indices[6 * (q - 1) + k] + 1]]

QuadCount(c) == Len(c.indices) \div 6

\* six points are two triangles that together fill an axis-parallel rectangle:
\* the four corners, each triangle three of them, the shared edge a diagonal
FillsRectangle(p) ==
    LET first  == {p[1], p[2], p[3]}
        second == {p[4], p[5], p[6]}
        shared == first \cap second
    IN  /\ Cardinality(first) = 3 /\ Cardinality(second) = 3
        /\ Cardinality(first \cup second) = 4
        /\ Cardinality({v[1] : v \in first \cup second}) = 2
        /\ Cardinality({v[2] : v \in first \cup second}) = 2
        /\ Cardinality({v[1] : v \in shared}) = 2
        /\ Cardinality({v[2] : v \in shared}) = 2

\* the boxes of the quads of a component, in mesh coordinates
MeshBoxes(c) == {BoxOf({QuadPoints(c, q)[k] : k \in 1..6}) : q \in 1..QuadCount(c)}

\* the quads of a component are rectangles no two of which are the same
QuadsAreDistinctRectangles(c) ==
    /\ Len(c.indices) = 6 * QuadCount(c)
    /\ \A q \in 1..QuadCount(c) : FillsRectangle(QuadPoints(c, q))
    /\ Cardinality(MeshBoxes(c)) = QuadCount(c)

\* the stamps that are placed quad by quad
QuadStamps == {"cross", "fill", "trim"}

\* the boxes of the quads of these stamps as built, and whether the quads
\* are distinct rectangles
BuiltBoxesTable == [s \in QuadStamps |-> MeshBoxes(ComponentFrom(BuiltMesh[s]))]
BuiltBoxes == IF BuiltBoxesTable = BuiltBoxesTable THEN BuiltBoxesTable ELSE BuiltBoxesTable
BuiltQuadsTable == [s \in QuadStamps |-> QuadsAreDistinctRectangles(ComponentFrom(BuiltMesh[s]))]
BuiltQuads == IF BuiltQuadsTable = BuiltQuadsTable THEN BuiltQuadsTable ELSE BuiltQuadsTable

\* the stamp s of the terrain is the built stamp, quad for quad
HasBuiltStamp(s) ==
    /\ terrain.component[s].positions = BuiltMesh[s].vertices
    /\ terrain.component[s].indices = BuiltMesh[s].indices

\* a box of the mesh as the instance places it
PlacedBox(inst, b) == BoxOf({TransformPoint(inst, <<b[1], b[2]>>), TransformPoint(inst, <<b[3], b[4]>>)})

\* the square [low, low + side]^2 whose low corner has the coordinates low
Square(low, side) == <<low[1], low[2], low[1] + side, low[2] + side>>

\* the number of squares of side `cell` that fill the box
CellArea(b, cell) == ((b[3] - b[1]) \div cell) * ((b[4] - b[2]) \div cell)

Inside(b, outer) == outer[1] <= b[1] /\ outer[2] <= b[2] /\ b[3] <= outer[3] /\ b[4] <= outer[4]

\* the interiors of the two boxes have no point in common
Disjoint(a, b) == a[3] <= b[1] \/ b[3] <= a[1] \/ a[4] <= b[2] \/ b[4] <= a[2]

\* b is a cell of the grid of squares of side `cell` that has a line through `origin`
OnGrid(b, origin, cell) ==
    /\ b[3] - b[1] = cell /\ b[4] - b[2] = cell
    /\ (b[1] - origin[1]) % cell = 0 /\ (b[2] - origin[2]) % cell = 0

\* lengths of a level in fine units
FineScale(L) == Scale(L) * SubUnits * MeshSubUnits
FineTile(L) == TILE_RES * FineScale(L)

\* snappedPos(L) = floor(camera / scale(L)) * scale(L), in fine units
FineSnap(cam, L) ==
    [i \in 1..2 |-> (cam[i] \div (Scale(L) * SubUnits)) * (Scale(L) * SubUnits) * MeshSubUnits]

\* the footprint of level L: [snappedPos - 2 tileSize, snappedPos + 2 tileSize + scale]^2
Footprint(cam, L) ==
    Square([i \in 1..2 |-> FineSnap(cam, L)[i] - 2 * FineTile(L)], 4 * FineTile(L) + FineScale(L))

\* the inner hole of level L: [snappedPos - tileSize, snappedPos + tileSize + scale]^2
Hole(cam, L) ==
    Square([i \in 1..2 |-> FineSnap(cam, L)[i] - FineTile(L)], 2 * FineTile(L) + FineScale(L))

StampedUpdated == terrain.history \in {"updated", "reupdated"}

\* the quads of the trim of level L as placed by its instance
PlacedTrim(L) ==
    {PlacedBox(terrain.component["trim"].instances[L + 1], b) : b \in BuiltBoxes["trim"]}

\* camera - nextSnap on axis i, in position units
NextD(cam, L, i) == cam[i] - (cam[i] \div (Scale(L + 1) * SubUnits)) * (Scale(L + 1) * SubUnits)

PlacedSeam(L) ==
    LET c == terrain.component["seam"]
    IN  {TransformPoint(c.instances[L + 1], c.positions[v]) : v \in 1..Len(c.positions)}

\* p is on one of the four sides of the box
OnBoundary(p, b) ==
    /\ b[1] <= p[1] /\ p[1] <= b[3] /\ b[2] <= p[2] /\ p[2] <= b[4]
    /\ p[1] \in {b[1], b[3]} \/ p[2] \in {b[2], b[4]}

Corners(b) == {<<b[1], b[2]>>, <<b[3], b[2]>>, <<b[3], b[4]>>, <<b[1], b[4]>>}

\* C19: for every level L < N_LEVELS - 1 the placed Seam (scaled by scale(L),
\* translated to nextSnap - tileSize(L+1)) has all its vertices on the
\* boundary of the inner hole of level L + 1 and a vertex at each of the four
\* corners of that square
C19_SeamOnNextHoleBoundary ==
    StampedUpdated =>
        \A L \in 0..(N_LEVELS - 2) :
            LET hole == Hole(terrain.eye, L + 1)
                seam == PlacedSeam(L)
            IN  /\ Len(terrain.component["seam"].instances) = N_LEVELS - 1
                /\ \A p \in seam : OnBoundary(p, hole)
                /\ Corners(hole) \subseteq seam

\* an updated terrain whose level-0 seam has a vertex that is not a corner of
\* the hole of level 1, for a camera in the upper half of its level-1 cell
C19_Witness ==
    /\ StampedUpdated
    /\ terrain.eye[1] = Scale(0) * SubUnits
    /\ \E p \in PlacedSeam(0) : p \notin Corners(Hole(terrain.eye, 1))
    /\ Cardinality(PlacedSeam(0)) = 4 * CLIP_VERT_RES

\* the squares the Tile instances of level L cover: tileSize x tileSize from the translation
PlacedTiles(L) ==
    LET tiles == AtLevel(terrain.component["tile"].instances, L)
    IN  {Square(<<tiles[i].x * MeshSubUnits, tiles[i].y * MeshSubUnits>>, FineTile(L)) : i \in 1..Len(tiles)}

\* the quads of the four arms of the Ring of level L as placed by its instance
PlacedRing(L) ==
    {PlacedBox(terrain.component["fill"].instances[L + 1], b) : b \in BuiltBoxes["fill"]}

\* the quads of the Cross as placed by its instance; only level 0 has one
PlacedCross(L) ==
    IF L = 0
    THEN {PlacedBox(terrain.component["cross"].instances[1], b) : b \in BuiltBoxes["cross"]}
    ELSE {}

\* C20: at every level L the Tile instances of the level, the four arms of its
\* Ring and, at level 0, the Cross cover every scale(L)-sized cell of the
\* footprint of the level, without its inner hole if L >= 1, exactly once
C20_ExactCoverPerLevel ==
    StampedUpdated =>
        /\ \A s \in {"fill", "cross"} : HasBuiltStamp(s) /\ BuiltQuads[s]
        /\ HasBuiltStamp("tile")
        /\ QuadCount(terrain.component["tile"]) = TILE_RES * TILE_RES
        /\ terrain.component["tile"].positions[1] = <<F32(0), F32(0)>>
        /\ terrain.component["tile"].positions[PATCH_RES * PATCH_RES] = <<F32(TILE_RES), F32(TILE_RES)>>
        /\ \A L \in Levels :
              \A tiles \in {PlacedTiles(L)}, ring \in {PlacedRing(L)}, cross \in {PlacedCross(L)} :
                  LET cam    == terrain.eye
                      foot   == Footprint(cam, L)
                      origin == <<foot[1], foot[2]>>
                      cell   == FineScale(L)
                  IN  /\ Cardinality(tiles) = Len(AtLevel(terrain.component["tile"].instances, L))
                      /\ Cardinality(ring) = QuadCount(terrain.component["fill"])
                      /\ L = 0 => Cardinality(cross) = QuadCount(terrain.component["cross"])
                      /\ \A b \in ring \cup cross : OnGrid(b, origin, cell)
                      /\ \A b \in tiles : (b[1] - origin[1]) % cell = 0 /\ (b[2] - origin[2]) % cell = 0
                      /\ \A b \in tiles \cup ring \cup cross : Inside(b, foot)
                      /\ L >= 1 => \A b \in tiles \cup ring \cup cross : Disjoint(b, Hole(cam, L))
                      /\ ring \cap cross = {}
                      /\ \A a \in tiles : \A b \in tiles \cup ring \cup cross : a = b \/ Disjoint(a, b)
                      /\ Cardinality(tiles) * TILE_RES * TILE_RES + Cardinality(ring) + Cardinality(cross)
                           = CellArea(foot, cell) - (IF L >= 1 THEN CellArea(Hole(cam, L), cell) ELSE 0)

\* an updated terrain: the cross lies in the footprint of level 0 and the ring
\* of level 1 outside the hole of level 1
C20_Witness ==
    /\ StampedUpdated
    /\ terrain.eye = <<-1, Scale(0) * SubUnits>>
    /\ Cardinality(PlacedCross(0)) = 4 * TILE_RES + 1
    /\ Cardinality(PlacedTiles(1)) = 12
    /\ \A b \in PlacedRing(1) : Disjoint(b, Hole(terrain.eye, 1))

\* ------------------------------------------------------------------------
\* Properties of the snapping in f32 arithmetic
\* ------------------------------------------------------------------------
F32Updated == f32_levels # <<>>

\* the f32 is zero or a normal number
IsNormalOrZero(c) == c.m = 0 \/ Magnitude(c.m) >= 2 ^ (F32_MANT - 1)

\* an integer-valued f32 is even
F32IsEven(x) == x.m = 0 \/ x.e >= 1 \/ (x.m \div 2 ^ (-x.e)) % 2 = 0

\* the trim bit of axis i in the rotation index r: 2 for x, 1 for y
HasTrimBit(r, i) == IF i = 1 THEN r \div 2 = 1 ELSE r % 2 = 1

\* snappedPos(L) - nextSnap is 0 or scale(L) on axis i
NestedOnAxis(L, i) ==
    LET rec == f32_levels[L + 1]
    IN  \/ rec.snapped_pos[i] = rec.next_snap[i]
        \/ F32Sub(rec.snapped_pos[i], rec.next_snap[i]) = F32Of(2 ^ ScaleExp(L))

\* the trim bit of axis i is set exactly when snappedPos(L) = nextSnap on the
\* axis, and exactly when floor(camera / scale(L)) is even
BitIsParity(L, i) ==
    LET rec == f32_levels[L + 1]
        bit == HasTrimBit(rec.r, i)
    IN  /\ bit <=> F32Less(rec.d[i], F32Of(2 ^ ScaleExp(L)))
        /\ bit <=> rec.snapped_pos[i] = rec.next_snap[i]
        /\ bit <=> F32IsEven(F32Floor(F32DivPow2(f32_eye[i], ScaleExp(L))))

\* C21 as stated: for every level L < N_LEVELS-1 and every camera position,
\* snappedPos(L) - nextSnap is 0 or scale(L) on each axis, each component of
\* d = camera - nextSnap lies in [0, 2*scale(L)), and the trim bit of an axis
\* is set exactly when snappedPos(L) = nextSnap there, i.e. exactly when
\* floor(camera/scale(L)) is even
C21_NestedSnappingAsStated ==
    F32Updated =>
        \A L \in 0..(N_LEVELS - 2), i \in 1..2 :
            /\ NestedOnAxis(L, i)
            /\ ~F32Less(f32_levels[L + 1].d[i], F32Zero)
            /\ F32Less(f32_levels[L + 1].d[i], F32Of(2 ^ (ScaleExp(L) + 1)))
            /\ BitIsParity(L, i)

\* C21 amended: for every level L < N_LEVELS-1 and every camera coordinate
\* that is zero or a normal f32, snappedPos(L) - nextSnap is 0 or scale(L),
\* d = camera - nextSnap as the f32 subtraction rounds it lies in the closed
\* interval [0, 2*scale(L)], and the trim bit is set exactly when
\* snappedPos(L) = nextSnap, i.e. exactly when floor(camera/scale(L)) is even
C21_NestedSnappingF32 ==
    F32Updated =>
        \A L \in 0..(N_LEVELS - 2), i \in 1..2 :
            IsNormalOrZero(f32_eye[i]) =>
                /\ NestedOnAxis(L, i)
                /\ ~F32Less(f32_levels[L + 1].d[i], F32Zero)
                /\ ~F32Less(F32Of(2 ^ (ScaleExp(L) + 1)), f32_levels[L + 1].d[i])
                /\ BitIsParity(L, i)

\* a camera just below zero on x: d.x is rounded to 2*scale(0) = 64, the x bit
\* is clear, and snappedPos(0) is nextSnap + scale(0)
C21_Witness ==
    /\ F32Updated
    /\ f32_eye[1] = F32Canon(-1, -20)
    /\ f32_levels[1].d[1] = F32Of(64)
    /\ ~HasTrimBit(f32_levels[1].r, 1)
    /\ f32_levels[1].snapped_pos[1] = F32Of(-32)
    /\ f32_levels[1].next_snap[1] = F32Of(-64)

\* ------------------------------------------------------------------------
\* Properties of the geometry of the generated stamps
\* ------------------------------------------------------------------------
\* the box of quad q (from 1) of a component, in mesh coordinates
QuadBox(c, q) == BoxOf({QuadPoints(c, q)[k] : k \in 1..6})

\* the unit cell whose low corner is (x, y)
UnitCell(x, y) == <<F32(x), F32(y), F32(x + 1), F32(y + 1)>>

\* C22: the horizontal strip of the cross has 2*TILE_RES+1 quads, the vertical
\* strip 2*TILE_RES: it omits its quad i = TILE_RES, the unit square [0,1]^2
\* that the horizontal strip already covers, so no unit cell is covered twice
C22_CrossStrips ==
    Built("cross") =>
        LET c          == ComponentFrom(mesh["cross"])
            horizontal == 2 * tile_res + 1
            vertical   == 2 * tile_res
        IN  /\ Len(c.indices) = 6 * (horizontal + vertical)
            /\ \A q \in 1..QuadCount(c) : FillsRectangle(QuadPoints(c, q))
            /\ \A i \in 0..(horizontal - 1) : QuadBox(c, i + 1) = UnitCell(i - tile_res, 0)
            /\ \A n \in 0..(vertical - 1) :
                  LET i == IF n < tile_res THEN n ELSE n + 1
                  IN  QuadBox(c, horizontal + n + 1) = UnitCell(0, i - tile_res)
            /\ \A n \in 1..vertical : QuadBox(c, horizontal + n) # UnitCell(0, 0)
            /\ Cardinality(MeshBoxes(c)) = QuadCount(c)

\* the cross of the built resolution: the unit square is quad TILE_RES of the
\* horizontal strip, and the vertical strip passes from below it to above it
C22_Witness ==
    /\ tile_res = TILE_RES
    /\ Built("cross")
    /\ QuadBox(ComponentFrom(mesh["cross"]), TILE_RES + 1) = UnitCell(0, 0)
    /\ QuadBox(ComponentFrom(mesh["cross"]), 3 * TILE_RES + 1) = UnitCell(0, -1)
    /\ QuadBox(ComponentFrom(mesh["cross"]), 3 * TILE_RES + 2) = UnitCell(0, 1)

\* C23: quad a of the ring, a in 0..4*TILE_RES, has arm = a div TILE_RES and
\* bl = arm*2*PATCH_RES + 2*(a mod TILE_RES), br = bl+1, tl = bl+2, tr = bl+3;
\* even arms emit br, bl, tr, bl, tl, tr and odd arms br, bl, tl, br, tl, tr;
\* all four indices lie in the arm's own block of 2*PATCH_RES vertices
C23_RingQuads ==
    Built("fill") =>
        LET indices == mesh["fill"].indices
            patch   == tile_res + 1
        IN  /\ Len(indices) = 6 * 4 * tile_res
            /\ \A a \in 0..(4 * tile_res - 1) :
                  LET arm == a \div tile_res
                      bl  == arm * 2 * patch + 2 * (a % tile_res)
                      br  == bl + 1
                      tl  == bl + 2
                      tr  == bl + 3
                  IN  /\ SubSeq(indices, 6 * a + 1, 6 * a + 6)
                           = IF arm % 2 = 0 THEN <<br, bl, tr, bl, tl, tr>>
                                            ELSE <<br, bl, tl, br, tl, tr>>
                      /\ \A k \in 1..6 :
                            /\ indices[6 * a + k] >= arm * 2 * patch
                            /\ indices[6 * a + k] < (arm + 1) * 2 * patch

\* the ring of the built resolution: the last quad of arm 1 ends on the last
\* vertex of the block of arm 1, with the pattern of an odd arm
C23_Witness ==
    /\ tile_res = TILE_RES
    /\ Built("fill")
    /\ SubSeq(mesh["fill"].indices, 6 * (2 * TILE_RES - 1) + 1, 6 * (2 * TILE_RES - 1) + 6)
         = <<4 * PATCH_RES - 3, 4 * PATCH_RES - 4, 4 * PATCH_RES - 2,
             4 * PATCH_RES - 3, 4 * PATCH_RES - 2, 4 * PATCH_RES - 1>>

\* twice the signed area of the triangle p, q, r: positive when counter-clockwise
SignedArea2(p, q, r) ==
    (q[1] - p[1]) * (r[2] - p[2]) - (q[2] - p[2]) * (r[1] - p[1])

Sign(n) == IF n > 0 THEN 1 ELSE IF n < 0 THEN -1 ELSE 0

\* the signs of the signed areas of the triangles of a mesh
TriangleSigns(m) ==
    {Sign(SignedArea2(m.vertices[m.indices[3 * t + 1] + 1],
                      m.vertices[m.indices[3 * t + 2] + 1],
                      m.vertices[m.indices[3 * t + 3] + 1])) :
        t \in 0..(Len(m.indices) \div 3 - 1)}

\* the stamps whose triangles have an area
AreaStamps == {"tile", "fill", "trim", "cross"}

\* C24: within each of Tile, Ring, Trim and Cross every triangle has non-zero
\* area and all triangles of the stamp have the same sign of signed area
C24_ConsistentWinding ==
    \A s \in AreaStamps :
        Built(s) => TriangleSigns(mesh[s]) \in {{1}, {-1}}

\* the four stamps of the built resolution are generated, the ring and the
\* cross with both of their index patterns
C24_Witness ==
    /\ tile_res = TILE_RES
    /\ \A s \in AreaStamps : Built(s) /\ Len(mesh[s].indices) >= 6
    /\ SubSeq(mesh["fill"].indices, 1, 3) = <<1, 0, 3>>
    /\ SubSeq(mesh["fill"].indices, 6 * TILE_RES + 1, 6 * TILE_RES + 3)
         = <<2 * PATCH_RES + 1, 2 * PATCH_RES, 2 * PATCH_RES + 2>>
    /\ TriangleSigns(mesh["cross"]) = TriangleSigns(mesh["fill"])

\* ------------------------------------------------------------------------
\* Properties of the seam, generated at compile time and at run time
\* ------------------------------------------------------------------------
RuntimeSeamBuilt == runtime_seam # NoRuntimeMesh

\* the vertices are a closed ring on the perimeter of [0, side]^2 that runs
\* along the bottom, right, top and left side, each vertex 1 from the next
IsSeamRing(vertices, side) ==
    /\ Len(vertices) = 4 * side
    /\ \A n \in 0..(4 * side - 1) :
          LET v    == vertices[n + 1]
              next == vertices[((n + 1) % (4 * side)) + 1]
          IN  /\ CASE n \div side = 0 -> v[2] = F32(0)
                   [] n \div side = 1 -> v[1] = F32(side)
                   [] n \div side = 2 -> v[2] = F32(side)
                   [] n \div side = 3 -> v[1] = F32(0)
              /\ v[1] >= F32(0) /\ v[1] <= F32(side)
              /\ v[2] >= F32(0) /\ v[2] <= F32(side)
              /\ v # next
              /\ Abs(v[1] - next[1]) + Abs(v[2] - next[2]) = F32(1)

\* for every even j in 0..V-2 the triangle (j + 1, j, (j + 2) mod V)
IsSeamStrip(indices, vcount) ==
    /\ Len(indices) = 3 * (vcount \div 2)
    /\ \A pair \in 0..(vcount \div 2 - 1) :
          SubSeq(indices, 3 * pair + 1, 3 * pair + 3)
            = <<2 * pair + 1, 2 * pair, (2 * pair + 2) % vcount>>

\* C25: the V = 4*CLIP_VERT_RES vertices of the seam form a closed ring on the
\* perimeter of [0, CLIP_VERT_RES]^2 (bottom, right, top, left), consecutive
\* vertices distinct and exactly 1 apart; the indices are, for each even j in
\* 0..V-2, the triangle (j+1, j, (j+2) mod V); the const generator, which
\* wraps by the modulo, and the run-time generator, which overwrites the last
\* index with 0, produce the same index sequence for the same TILE_RES
C25_SeamRing ==
    /\ Built("seam") =>
          /\ mesh["seam"].vertex_count = 4 * ClipVertRes(tile_res)
          /\ IsSeamRing(mesh["seam"].vertices, ClipVertRes(tile_res))
          /\ IsSeamStrip(IndexBuffer(mesh["seam"]), mesh["seam"].vertex_count)
    /\ RuntimeSeamBuilt =>
          /\ IsSeamRing(runtime_seam.vertex_buffer, ClipVertRes(tile_res))
          /\ IsSeamStrip(runtime_seam.index_buffer, Len(runtime_seam.vertex_buffer))
          /\ runtime_seam.index_count = Len(runtime_seam.index_buffer)
    /\ (Built("seam") /\ RuntimeSeamBuilt) =>
          /\ IndexBuffer(mesh["seam"]) = runtime_seam.index_buffer
          /\ mesh["seam"].vertices = runtime_seam.vertex_buffer

\* both generators have run for the resolution of the run-time variant, and
\* the last triangle closes the ring on vertex 0
C25_Witness ==
    /\ tile_res = TILE_RESOLUTION
    /\ Built("seam")
    /\ RuntimeSeamBuilt
    /\ runtime_seam.index_count = 6 * ClipVertRes(TILE_RESOLUTION)
    /\ runtime_seam.index_buffer[runtime_seam.index_count] = 0
    /\ mesh["seam"].indices[mesh["seam"].index_count] = 0
    /\ runtime_seam.index_buffer[runtime_seam.index_count - 2] = 4 * ClipVertRes(TILE_RESOLUTION) - 1

\* ------------------------------------------------------------------------
\* Properties of the shared arrays of the const generators
\* ------------------------------------------------------------------------
\* C26: the tile is always the largest stamp: for any TILE_RES >= 1 the vertex
\* count of every stamp is at most V_MAX = V_TILE and its index count at most
\* I_MAX = I_TILE, so no generator writes a vertex or an index outside the
\* shared arrays of length V_MAX and I_MAX
C26_TileIsLargest ==
    \A s \in StampTypes :
        generated[s] # "pending" =>
            /\ DeclaredVertexCount(s, tile_res) <= V_MAX(tile_res)
            /\ DeclaredIndexCount(s, tile_res) <= I_MAX(tile_res)
            /\ generated[s] = "built"
            /\ WithinArrays(mesh[s], tile_res)

\* ------------------------------------------------------------------------
\* Properties of the instance buffers of src/terrain.rs
\* ------------------------------------------------------------------------
WgpuUpdated == wgpu_terrain.status \in {"updated", "panicked"}

\* C27: for every camera position the number of instance records
\* update_terrain_system writes at offset 0 into each instance buffer is at
\* most the number of records the buffer was allocated for in new (tiles
\* 16*NUM_LEVELS; cross, filler, trim and seam NUM_LEVELS each), and each
\* count field render uses equals the number of records written for that
\* stamp in the same call
C27_WritesWithinAllocation ==
    WgpuUpdated =>
        \A s \in StampTypes :
            /\ Len(wgpu_terrain.instances[s]) = (IF s = "tile" THEN 16 * NUM_LEVELS ELSE NUM_LEVELS)
            /\ wgpu_terrain.count[s] <= Len(wgpu_terrain.instances[s])
            /\ wgpu_terrain.count[s] = wgpu_terrain.written[s]

\* ------------------------------------------------------------------------
\* Properties of the registry of systems
\* ------------------------------------------------------------------------
NoDuplicates(seq) == \A i, j \in 1..Len(seq) : i # j => seq[i] # seq[j]

Elements(seq) == {seq[i] : i \in 1..Len(seq)}

\* C28: after any sequence of register_system and run_systems calls,
\* including runs in which a system's update registers a system,
\* system_execution_order contains no type twice and exactly the keys of
\* registered_systems; hence each run updates every registered system exactly
\* once, in the order of first registration
C28_RegistryInvariant ==
    /\ NoDuplicates(system_execution_order)
    /\ Elements(system_execution_order) = registered_systems
    /\ last_run.ran =>
          /\ NoDuplicates(last_run.updated)
          /\ Elements(last_run.updated) = last_run.registered
          /\ last_run.updated = last_run.order

\* ------------------------------------------------------------------------
\* Properties of the frames in flight
\* ------------------------------------------------------------------------
\* the fence render waits for next is signaled, or was submitted with work
\* that will signal it
FenceNotStuck == render_fence[CurrentFrame] \in {"signaled", "pending"}

\* frame_number is one more than before a render that returned Ok with a
\* swapchain, and as before a render that returned an error or had no swapchain
FrameNumberFollowsRender ==
    /\ (last_render.result = "ok" /\ last_render.swapchain) =>
          frame_number = last_render.frame_number + 1
    /\ (last_render.result = "err" \/ (last_render.result = "ok" /\ ~last_render.swapchain)) =>
          frame_number = last_render.frame_number

\* C29: the frame fences never get stuck: in every state reachable by render
\* calls, including calls that return an error after the fence of the
\* current frame was reset, the fence of the frame selected by frame_number
\* mod FRAME_OVERLAP is signaled or has submitted work that will signal it, so
\* a later wait_for_fences succeeds; frame_number advances by exactly 1 on a
\* successful render and is unchanged on an error or without a swapchain
C29_FencesNeverStuck == FenceNotStuck /\ FrameNumberFollowsRender

\* ------------------------------------------------------------------------
\* Properties of the edge detection of WreInput
\* ------------------------------------------------------------------------
\* a frame of start_frame, changes of the pressed sets, end_frame has just
\* ended, begun right after the frame before it (or after new)
ProperFrameEnded == input_frames.phase = "ended" /\ input_frames.proper

\* C30: for frames that each consist of start_frame, changes of the pressed
\* sets, end_frame: after end_frame just_pressed_keys is pressed_keys minus the
\* keys pressed at the end of the previous frame, and just_released_keys is
\* the keys pressed at the end of the previous frame minus pressed_keys; the
\* two are disjoint, and a key held across two consecutive frames is not
\* reported as just pressed in the second; the same for mouse buttons
C30_EdgeDetection ==
    ProperFrameEnded =>
        /\ input.just_pressed_keys = input.pressed_keys \ input_frames.before.keys
        /\ input.just_released_keys = input_frames.before.keys \ input.pressed_keys
        /\ input.just_pressed_keys \cap input.just_released_keys = {}
        /\ \A key \in input_frames.before.keys \cap input.pressed_keys :
              key \notin input.just_pressed_keys
        /\ input.just_pressed_mouse_buttons
             = input.pressed_mouse_buttons \ input_frames.before.mouse_buttons
        /\ input.just_released_mouse_buttons
             = input_frames.before.mouse_buttons \ input.pressed_mouse_buttons
        /\ input.just_pressed_mouse_buttons \cap input.just_released_mouse_buttons = {}
        /\ \A button \in input_frames.before.mouse_buttons \cap input.pressed_mouse_buttons :
              button \notin input.just_pressed_mouse_buttons

\* the second of two frames has ended: KeyW was held across both, Space went
\* down and the left button went up in the second
C30_Witness ==
    /\ ProperFrameEnded
    /\ input_frames.before = Held({"KeyW"}, {"Left"})
    /\ input.pressed_keys = {"KeyW", "Space"}
    /\ input.pressed_mouse_buttons = {}
    /\ input.just_pressed_keys = {"Space"}
    /\ input.just_released_mouse_buttons = {"Left"}

====
